---------------------------- MODULE Spec2Model ----------------------------
(***************************************************************************)
(* vista-auth: the session and credential lifecycle.                       *)
(*                                                                         *)
(*  - VistaAuthServer (src/src/server/core.ts): signUp, signIn,            *)
(*    getSession, signOut over a DatabaseAdapter (src/src/types.ts,        *)
(*    adapters in src/unnamed/part_010).                                   *)
(*  - WebSocketSync (src/src/client/websocket.ts): connect, disconnect,    *)
(*    the socket callbacks and the reconnect timer.                        *)
(*                                                                         *)
(* Optional values (T | null | undefined) are sequences of length 0 or 1.  *)
(* Times are milliseconds, as Date.now() gives them.                       *)
(***************************************************************************)
EXTENDS Integers, Sequences, FiniteSets, TLC

(***************************************************************************)
(* Bounds of the model.                                                    *)
(***************************************************************************)
\* users the store may come to hold
MaxUsers == 1
\* sessions createSession may mint (nanoid() is a fresh id each time)
MaxSessions == 2
\* clock steps
MaxTicks == 2
\* milliseconds per clock step; not a multiple of 1000, so that Date.now()
\* falls between whole seconds
TickMs == 500

Emails == {"a@b.com", "real@x.com"}
\* A password is the sequence of its bytes.
\* bcryptjs hashes the first 72 bytes of a password and no more
bcryptInputBytes == 72

\* "secret123" and "wrong"
ShortPassword == <<"s", "e", "c", "r", "e", "t", "1", "2", "3">>
WrongPassword == <<"w", "r", "o", "n", "g">>
\* two passwords of 73 bytes that differ in the last byte only
LongPassword == [i \in 1..bcryptInputBytes |-> "a"] \o <<"1">>
OtherLongPassword == [i \in 1..bcryptInputBytes |-> "a"] \o <<"2">>

\* passwords chosen at sign-up, and passwords tried at sign-in
SignUpPasswords == {ShortPassword}
Passwords == SignUpPasswords \cup {WrongPassword}
\* passwords handed to hashPassword and verifyPassword
PasswordInputs == Passwords \cup {LongPassword, OtherLongPassword}
\* fields outside SignUpData that a caller may put in the sign-up data
SignUpExtras == {[roles |-> <<"admin">>, permissions |-> <<"users:delete">>]}
\* metadata a caller may pass to signUp (SignUpData.metadata)
MetaInputs ==
  { [k \in {} |-> <<"str", "">>],
    [k \in {"plan", "password"} |-> <<"str", "plaintext">>] }

(***************************************************************************)
(* Configuration (constructor, core.ts 24-36).                             *)
(***************************************************************************)
\* 7 * 24 * 60 * 60 * 1000
DefaultSessionDuration == 604800000
\* config.sessionDuration as passed; 0 stands for "not given"
ConfigDurations == {0, 1000}
jwtSecret == "vista-auth-secret-change-in-production"

\* The collaborator handed to the constructor:
\*   none     no database configured
\*   basic    the five required methods only (pure-token mode)
\*   lenient  with session methods; deleting a missing record is a no-op
\*            (Mongo deleteOne, Supabase delete().eq, pg DELETE, Firestore)
\*   prisma   with session methods; prisma.session.delete rejects when the
\*            record does not exist
AdapterKinds == {"none", "basic", "lenient", "prisma"}

VARIABLES
  database,      \* this.database: one of AdapterKinds
  cfgDuration,   \* config.sessionDuration as passed
  users,         \* the collaborator's user records
  sessionsDb,    \* ids of the collaborator's session records
  now,           \* Date.now()
  nextUid,       \* next fresh nanoid() for a user
  nextSid,       \* next fresh nanoid() for a session
  issued,        \* tokens handed to callers so far
  call,          \* the last AuthCore call: [op, arg, fault], arg its
                 \* email, token or sessionId, fault the collaborator call
                 \* that failed in it ("none": every call it made answered)
  res,           \* what that call returned
  lifecycleCalls,\* history: the invocations of config.onSignIn (the users
                 \* passed) and of config.onSignOut (their number)
  signUps        \* the signUp calls made while others were in flight, in
                 \* the order they began: [data, pc, response]; pc is
                 \* "awaiting" after findUserByEmail has answered and
                 \* before createUser is called, then "done"

authVars ==
  <<database, cfgDuration, users, sessionsDb, now, nextUid, nextSid,
    issued, call, res, lifecycleCalls, signUps>>

\* WebSocketSync (src/src/client/websocket.ts)
VARIABLES
  ws,                \* this.ws: 0 for null, else the number of a socket
  sockets,           \* every WebSocket constructed so far, in order:
                     \* [readyState, token]
  reconnectAttempts, \* this.reconnectAttempts
  timers,            \* pending setTimeout callbacks: [delay, token]
  sessionUpdateCallbacks, \* number of registered listeners
  seen,              \* per listener, the sessions it was invoked with
  received,          \* number of message events delivered so far
  lastMessage,       \* history: event.data of the last message event
  scheduled,         \* history: the delays passed to setTimeout
  connectCalls,      \* history: connect() calls made by the owner
  everOpened,        \* history: some socket has opened
  justOpened,        \* history: a socket has opened and no socket has
                     \* closed since
  reconnected,       \* history: the socket of a connect() called after the
                     \* channel had given up (0: there is none)
  quiet              \* history: disconnect() has returned and connect() has
                     \* not been called since

syncVars ==
  <<ws, sockets, reconnectAttempts, timers, sessionUpdateCallbacks, seen,
    received, lastMessage, scheduled, connectCalls, everOpened, justOpened,
    reconnected, quiet>>

\* SessionStorage (src/unnamed/part_010 643-759) and the browser storages
\* it reads and writes under the key 'vista-auth-token'
VARIABLES
  storageConfig, \* config.sessionStorage as passed ("" for undefined)
  localItem,     \* localStorage item
  sessionItem,   \* sessionStorage item
  idbItem,       \* record of the object store 'sessions'
  idbOpens,      \* environment: indexedDB.open succeeds
  db,            \* this.db is set
  initPending,   \* the constructor's initIndexedDB() has not settled
  unhandled,     \* rejected promises that no caller holds
  storeCall,     \* the last call: [op, arg, outcome, value]
  lastSet        \* history: the token of the last completed setToken,
                 \* <<>> after a completed clearToken or when none was set

storeVars ==
  <<storageConfig, localItem, sessionItem, idbItem, idbOpens, db,
    initPending, unhandled, storeCall, lastSet>>

\* AuthProvider (src/unnamed/part_010 384-626)
VARIABLES
  authUser,      \* useState: user
  authSession,   \* useState: session
  isLoading,     \* useState: isLoading
  syncEnabled,   \* config.sessionSyncEnabled
  stableConfig,  \* the config prop is the same object on every render
  renders,       \* renders so far; render r constructs WebSocketSync r
  syncs,         \* the WebSocketSync of each render: [ws, callbacks]
  psockets,      \* the WebSockets they constructed: [owner, readyState]
  signInSync,    \* the render whose wsSync the current signIn/signUp hold
  signOutSync,   \* the render whose wsSync the current signOut holds
  interval,      \* the armed setInterval of the expiry effect: [due]
  clientNow,     \* Date.now() in the browser
  initDone,      \* initSession has finished
  unmounted,     \* the effect cleanup has run
  expiredFired,  \* history: calls of config.onSessionExpired
  pushes,        \* history: session_update messages delivered
  signedOut,     \* history: signOut has completed and no signIn or signUp
                 \* has succeeded since
  watch,         \* history: the session a sign-in established, while only
                 \* the expiry check has touched it
  closure,       \* the user and session captured by the updateUser
                 \* function its next caller holds (useCallback over
                 \* [user, session]): those of the render the caller last
                 \* took it from
  signOutsPending, \* signOut calls awaiting the answer of their fetch
  lastClient     \* history: the last provider step: [op, found, ok, shape,
                 \* token, session, sent, answer]

providerVars ==
  <<authUser, authSession, isLoading, syncEnabled, stableConfig, renders, syncs,
    psockets, signInSync, signOutSync, interval, clientNow, initDone,
    unmounted, expiredFired, pushes, signedOut, watch, closure,
    signOutsPending, lastClient>>

clientVars == <<storeVars, providerVars>>

vars == <<authVars, syncVars, clientVars>>

\* core.ts 29: config.sessionDuration || 7 days
sessionDuration ==
  IF cfgDuration # 0 THEN cfgDuration ELSE DefaultSessionDuration

\* a collaborator of this kind has the optional session methods
sessionOps(kind) == kind \in {"lenient", "prisma"}

hasSessionOps == sessionOps(database)


(***************************************************************************)
(* Errors.  A thrown value is [nullish, code, message, statusCode]; an     *)
(* absent field is "" (0 for statusCode), which is falsy as in the source. *)
(***************************************************************************)
\* what a collaborator call may throw or reject with
Thrown ==
  { \* throw undefined / Promise.reject(null)
    [nullish |-> TRUE, code |-> "", message |-> "", statusCode |-> 0],
    \* new Error("db down")
    [nullish |-> FALSE, code |-> "", message |-> "db down", statusCode |-> 0],
    \* a driver error carrying its own code (Node ECONNREFUSED, Prisma P2002)
    [nullish |-> FALSE, code |-> "ECONNREFUSED",
     message |-> "connect ECONNREFUSED", statusCode |-> 0],
    \* a driver error with a code and an empty message
    [nullish |-> FALSE, code |-> "ETIMEDOUT", message |-> "", statusCode |-> 0] }

\* PrismaClientKnownRequestError of prisma.session.delete on a missing record
PrismaNotFound ==
  [nullish |-> FALSE, code |-> "P2025",
   message |-> "Record to delete does not exist.", statusCode |-> 0]

createError(code, message, statusCode) ==
  [nullish |-> FALSE, code |-> code, message |-> message,
   statusCode |-> statusCode]

\* error.code on null or undefined raises a TypeError inside the catch block
normalizeErrorThrows(error) == error.nullish

normalizeError(error) ==
  IF error.code # "" /\ error.message # ""
  THEN [code |-> error.code, message |-> error.message,
        statusCode |-> error.statusCode]
  ELSE [code |-> "INTERNAL_ERROR",
        message |-> IF error.message # "" THEN error.message
                    ELSE "An unexpected error occurred",
        statusCode |-> 500]

(***************************************************************************)
(* CredentialHasher and TokenCodec.                                        *)
(***************************************************************************)
\* the bytes of a password that bcrypt takes in
bcryptInput(password) ==
  IF Len(password) > bcryptInputBytes
  THEN SubSeq(password, 1, bcryptInputBytes)
  ELSE password

\* bcrypt.hash: the hash determines the bytes it was made from
hashPassword(password) == <<"bcrypt", bcryptInput(password)>>

\* bcrypt.compare: false for anything that is not a hash of the bytes
\* taken in
verifyPassword(password, hash) ==
  /\ Len(hash) = 2
  /\ hash[1] = "bcrypt"
  /\ hash[2] = bcryptInput(password)

\* jwt.sign(payload, secret)
generateToken(payload) ==
  [userId |-> payload.userId, sessionId |-> payload.sessionId,
   exp |-> payload.exp, iat |-> payload.iat, sig |-> jwtSecret]

\* verifyToken without the check of exp
verifyToken_ignoresExp(token) ==
  IF token.sig = jwtSecret
  THEN <<[userId |-> token.userId, sessionId |-> token.sessionId,
          exp |-> token.exp, iat |-> token.iat]>>
  ELSE <<>>

\* jwt.verify(token, secret): throws unless the string parses as a JWT, the
\* signature is this secret's and the clock, in whole seconds, is before exp
jwtVerify(token) ==
  IF token.sig = ""
  THEN [thrown |-> "jwt malformed", payload |-> <<>>]
  ELSE IF token.sig # jwtSecret
  THEN [thrown |-> "invalid signature", payload |-> <<>>]
  ELSE IF (now \div 1000) >= token.exp
  THEN [thrown |-> "jwt expired", payload |-> <<>>]
  ELSE [thrown |-> "",
        payload |-> <<[userId |-> token.userId, sessionId |-> token.sessionId,
                       exp |-> token.exp, iat |-> token.iat]>>]

\* verifyToken that accepts any signature
verifyToken_anySecret(token) ==
  IF token.sig # "" /\ (now \div 1000) < token.exp
  THEN <<[userId |-> token.userId, sessionId |-> token.sessionId,
          exp |-> token.exp, iat |-> token.iat]>>
  ELSE <<>>

\* core.ts 62-68: whatever jwt.verify throws is caught and gives null
verifyToken(token) ==
  IF jwtVerify(token).thrown # "" THEN <<>> ELSE jwtVerify(token).payload

(***************************************************************************)
(* DatabaseAdapter.                                                        *)
(***************************************************************************)
findUserByEmail(email) ==
  IF \E u \in users : u.email = email
  THEN <<CHOOSE u \in users : u.email = email>>
  ELSE <<>>

findUserById(id) ==
  IF \E u \in users : u.id = id
  THEN <<CHOOSE u \in users : u.id = id>>
  ELSE <<>>

(***************************************************************************)
(* VistaAuthServer private helpers.                                        *)
(***************************************************************************)
\* sanitizeUser without the removal of the hash
sanitizeUser_keepsHash(user) == user

\* const { password, ...cleanMetadata } = metadata || {}
sanitizeUser(user) ==
  [user EXCEPT !.metadata =
     [k \in (DOMAIN user.metadata) \ {"password"} |-> user.metadata[k]]]

\* a Session that expires the instant it is created
newSession_noDuration(userId, user) ==
  [sessionId |-> nextSid, userId |-> userId, user |-> user,
   expiresAt |-> now, createdAt |-> now, lastActivity |-> now]

\* the Session object createSession builds (core.ts 251-260)
newSession(userId, user) ==
  [sessionId |-> nextSid, userId |-> userId, user |-> user,
   expiresAt |-> now + sessionDuration, createdAt |-> now,
   lastActivity |-> now]

\* the claims signUp and signIn put in the token (core.ts 108-113, 164-169)
tokenPayload(user, session) ==
  [userId |-> user.id, sessionId |-> session.sessionId,
   exp |-> session.expiresAt \div 1000,
   iat |-> session.createdAt \div 1000]

(***************************************************************************)
(* The try-block of each operation.  An attempt is what the block did:     *)
(* raised (the thrown value, if any), the collaborator's records after it, *)
(* and the value it returned.  fault names the collaborator call that      *)
(* fails if the run reaches it ("none": every call answers), thrown what   *)
(* it throws.                                                              *)
(***************************************************************************)
\* throw this.createError(...), or an adapter's own documented rejection
Raise(error, us, ss) ==
  [raised |-> <<error>>, faulted |-> FALSE, users |-> us, sessionsDb |-> ss,
   user |-> <<>>, token |-> <<>>, session |-> <<>>]

\* the collaborator call named by fault was reached and failed
Fail(thrown, us, ss) ==
  [raised |-> <<thrown>>, faulted |-> TRUE, users |-> us, sessionsDb |-> ss,
   user |-> <<>>, token |-> <<>>, session |-> <<>>]

Return(us, ss, user, token, session) ==
  [raised |-> <<>>, faulted |-> FALSE, users |-> us, sessionsDb |-> ss,
   user |-> user, token |-> token, session |-> session]

\* core.ts 250-267 followed by token generation and the return
createSessionWith(kind, us, user, fault, thrown) ==
  LET clean == sanitizeUser(user)
      session == newSession(user.id, clean)
  IN IF sessionOps(kind) /\ fault = "createSession"
     THEN Fail(thrown, us, sessionsDb)
     ELSE Return(us,
                 IF sessionOps(kind) THEN sessionsDb \cup {session.sessionId}
                 ELSE sessionsDb,
                 <<clean>>,
                 <<generateToken(tokenPayload(user, session))>>,
                 <<session>>)

\* with the collaborator this server was constructed with
createSession(us, user, fault, thrown) ==
  createSessionWith(database, us, user, fault, thrown)

\* signUp without the check for an existing user
signUpAttempt_noExistsCheck(data, fault, thrown) ==
  IF database = "none"
  THEN Raise(createError("NO_DATABASE", "Database adapter not configured", 500),
             users, sessionsDb)
  ELSE IF fault = "findUserByEmail" THEN Fail(thrown, users, sessionsDb)
  ELSE IF fault = "createUser" THEN Fail(thrown, users, sessionsDb)
  ELSE LET user == [id |-> nextUid, email |-> data.email, name |-> data.name,
                    roles |-> <<"user">>, permissions |-> <<>>,
                    metadata |->
                      [k \in (DOMAIN data.metadata) \cup {"password"} |->
                         IF k = "password" THEN hashPassword(data.password)
                         ELSE data.metadata[k]]]
       IN createSession(users \cup {user}, user, fault, thrown)

\* signUp with the caller's metadata spread after the hash
signUpAttempt_callerLast(data, fault, thrown) ==
  IF database = "none"
  THEN Raise(createError("NO_DATABASE", "Database adapter not configured", 500),
             users, sessionsDb)
  ELSE IF fault = "findUserByEmail" THEN Fail(thrown, users, sessionsDb)
  ELSE IF findUserByEmail(data.email) # <<>>
  THEN Raise(createError("USER_EXISTS", "User with this email already exists", 400),
             users, sessionsDb)
  ELSE IF fault = "createUser" THEN Fail(thrown, users, sessionsDb)
  ELSE LET user == [id |-> nextUid, email |-> data.email, name |-> data.name,
                    roles |-> <<"user">>, permissions |-> <<>>,
                    metadata |->
                      [k \in (DOMAIN data.metadata) \cup {"password"} |->
                         IF k \in DOMAIN data.metadata THEN data.metadata[k]
                         ELSE hashPassword(data.password)]]
       IN createSession(users \cup {user}, user, fault, thrown)

\* core.ts 85-122: signUp from hashPassword on, after the check for an
\* existing user has passed
signUpCreate(kind, data, fault, thrown) ==
  IF fault = "createUser" THEN Fail(thrown, users, sessionsDb)
  ELSE LET user == [id |-> nextUid, email |-> data.email, name |-> data.name,
                    roles |-> <<"user">>, permissions |-> <<>>,
                    metadata |->
                      [k \in (DOMAIN data.metadata) \cup {"password"} |->
                         IF k = "password" THEN hashPassword(data.password)
                         ELSE data.metadata[k]]]
       IN createSessionWith(kind, users \cup {user}, user, fault, thrown)

\* core.ts 73-129, the try-block
signUpAttemptWith(kind, data, fault, thrown) ==
  IF kind = "none"
  THEN Raise(createError("NO_DATABASE", "Database adapter not configured", 500),
             users, sessionsDb)
  ELSE IF fault = "findUserByEmail" THEN Fail(thrown, users, sessionsDb)
  ELSE IF findUserByEmail(data.email) # <<>>
  THEN Raise(createError("USER_EXISTS", "User with this email already exists", 400),
             users, sessionsDb)
  ELSE signUpCreate(kind, data, fault, thrown)

signUpAttempt(data, fault, thrown) ==
  signUpAttemptWith(database, data, fault, thrown)

\* signIn with an unknown email reported as such
signInAttempt_tellsUnknown(credentials, fault, thrown) ==
  IF database = "none"
  THEN Raise(createError("NO_DATABASE", "Database adapter not configured", 500),
             users, sessionsDb)
  ELSE IF fault = "findUserByEmail" THEN Fail(thrown, users, sessionsDb)
  ELSE LET found == findUserByEmail(credentials.email)
       IN IF found = <<>>
          THEN Raise(createError("USER_NOT_FOUND", "User not found", 404),
                     users, sessionsDb)
          ELSE IF "password" \notin DOMAIN found[1].metadata
          THEN Raise(createError("NO_PASSWORD", "User has no password set", 500),
                     users, sessionsDb)
          ELSE IF ~verifyPassword(credentials.password, found[1].metadata["password"])
          THEN Raise(createError("INVALID_CREDENTIALS", "Invalid email or password", 401),
                     users, sessionsDb)
          ELSE createSession(users, found[1], fault, thrown)

signInAttemptWith(kind, credentials, fault, thrown) ==
  IF kind = "none"
  THEN Raise(createError("NO_DATABASE", "Database adapter not configured", 500),
             users, sessionsDb)
  ELSE IF fault = "findUserByEmail" THEN Fail(thrown, users, sessionsDb)
  ELSE LET found == findUserByEmail(credentials.email)
       IN IF found = <<>>
          THEN Raise(createError("INVALID_CREDENTIALS", "Invalid email or password", 401),
                     users, sessionsDb)
          ELSE IF "password" \notin DOMAIN found[1].metadata
          THEN Raise(createError("NO_PASSWORD", "User has no password set", 500),
                     users, sessionsDb)
          ELSE IF ~verifyPassword(credentials.password, found[1].metadata["password"])
          THEN Raise(createError("INVALID_CREDENTIALS", "Invalid email or password", 401),
                     users, sessionsDb)
          ELSE createSessionWith(kind, users, found[1], fault, thrown)

signInAttempt(credentials, fault, thrown) ==
  signInAttemptWith(database, credentials, fault, thrown)

\* getSession deleting the session record of a token it refuses
getSessionAttemptWith_deletes(kind, token, fault, thrown) ==
  LET payload == verifyToken(token)
  IN IF payload = <<>>
     THEN Raise(createError("INVALID_TOKEN", "Invalid or expired token", 401),
                users, sessionsDb \ {token.sessionId})
     ELSE IF kind = "none"
     THEN Raise(createError("NO_DATABASE", "Database adapter not configured", 500),
                users, sessionsDb)
     ELSE IF fault = "findUserById" THEN Fail(thrown, users, sessionsDb)
     ELSE LET found == findUserById(payload[1].userId)
          IN IF found = <<>>
             THEN Raise(createError("USER_NOT_FOUND", "User not found", 404),
                        users, sessionsDb)
             ELSE Return(users, sessionsDb, <<>>, <<>>,
                         <<[sessionId |-> payload[1].sessionId,
                            userId |-> found[1].id,
                            user |-> sanitizeUser(found[1]),
                            expiresAt |-> payload[1].exp * 1000,
                            createdAt |-> payload[1].iat * 1000,
                            lastActivity |-> now]>>)

getSessionAttemptWith(kind, token, fault, thrown) ==
  LET payload == verifyToken(token)
  IN IF payload = <<>>
     THEN Raise(createError("INVALID_TOKEN", "Invalid or expired token", 401),
                users, sessionsDb)
     ELSE IF kind = "none"
     THEN Raise(createError("NO_DATABASE", "Database adapter not configured", 500),
                users, sessionsDb)
     ELSE IF fault = "findUserById" THEN Fail(thrown, users, sessionsDb)
     ELSE LET found == findUserById(payload[1].userId)
          IN IF found = <<>>
             THEN Raise(createError("USER_NOT_FOUND", "User not found", 404),
                        users, sessionsDb)
             ELSE Return(users, sessionsDb, <<>>, <<>>,
                         <<[sessionId |-> payload[1].sessionId,
                            userId |-> found[1].id,
                            user |-> sanitizeUser(found[1]),
                            expiresAt |-> payload[1].exp * 1000,
                            createdAt |-> payload[1].iat * 1000,
                            lastActivity |-> now]>>)

getSessionAttempt(token, fault, thrown) ==
  getSessionAttemptWith(database, token, fault, thrown)

signOutAttemptWith(kind, sessionId, fault, thrown) ==
  IF ~sessionOps(kind) THEN Return(users, sessionsDb, <<>>, <<>>, <<>>)
  ELSE IF fault = "deleteSession" THEN Fail(thrown, users, sessionsDb)
  ELSE IF kind = "prisma" /\ sessionId \notin sessionsDb
  THEN Raise(PrismaNotFound, users, sessionsDb)
  ELSE Return(users, sessionsDb \ {sessionId}, <<>>, <<>>, <<>>)

signOutAttempt(sessionId, fault, thrown) ==
  signOutAttemptWith(database, sessionId, fault, thrown)


(***************************************************************************)
(* The catch-block and the returned AuthResponse.                          *)
(***************************************************************************)
\* outcome "rejected": the promise rejects, nothing is returned
Response(attempt) ==
  IF attempt.raised = <<>>
  THEN [outcome |-> "resolved", success |-> TRUE, error |-> <<>>,
        user |-> attempt.user, token |-> attempt.token,
        session |-> attempt.session]
  ELSE IF normalizeErrorThrows(attempt.raised[1])
  THEN [outcome |-> "rejected", success |-> FALSE, error |-> <<>>,
        user |-> <<>>, token |-> <<>>, session |-> <<>>]
  ELSE [outcome |-> "resolved", success |-> FALSE,
        error |-> <<normalizeError(attempt.raised[1])>>,
        user |-> <<>>, token |-> <<>>, session |-> <<>>]

\* the effects of one call, common to the four operations.  The
\* constructor keeps bcryptRounds, jwtSecret, jwtExpiresIn, sessionDuration
\* and database of its config (core.ts 25-31) and no operation reads any
\* other field of it: no callback is invoked.
Finish(op, arg, fault, attempt) ==
  /\ attempt.users = users \/ nextUid <= MaxUsers
  /\ attempt.session = <<>> \/ op = "getSession" \/ nextSid <= MaxSessions
  /\ call' = [op |-> op, arg |-> arg,
              fault |-> IF attempt.faulted THEN fault ELSE "none"]
  /\ res' = Response(attempt)
  /\ users' = attempt.users
  /\ sessionsDb' = attempt.sessionsDb
  /\ nextUid' = IF attempt.users # users THEN nextUid + 1 ELSE nextUid
  /\ nextSid' = IF attempt.session # <<>> /\ op # "getSession"
                THEN nextSid + 1 ELSE nextSid
  /\ issued' = issued \cup {attempt.token[i] : i \in DOMAIN attempt.token}
  /\ UNCHANGED <<database, cfgDuration, now, lifecycleCalls, signUps>>
  /\ UNCHANGED <<syncVars, clientVars>>

Names == {"A"}

\* what the failing call throws; when no call fails nothing is thrown
ThrownBy(fault) ==
  IF fault = "none"
  THEN {[nullish |-> FALSE, code |-> "", message |-> "", statusCode |-> 0]}
  ELSE Thrown

\* the collaborator calls an operation makes, given the methods it has
Faults(calls) ==
  {"none"} \cup {c \in calls : c \in {"createSession", "deleteSession"} => hasSessionOps}

\* a token signed with another secret
Forge(token) == [token EXCEPT !.sig = "attacker-secret"]

(***************************************************************************)
(* Actions of the server.                                                  *)
(***************************************************************************)
signUp ==
  \E email \in Emails, password \in SignUpPasswords, name \in Names,
     metadata \in MetaInputs, extra \in SignUpExtras,
     fault \in Faults({"findUserByEmail", "createUser", "createSession"}) :
    \E thrown \in ThrownBy(fault) :
    LET data == [email |-> email, password |-> password, name |-> name,
                 metadata |-> metadata, roles |-> extra.roles,
                 permissions |-> extra.permissions]
    IN Finish("signUp", email, fault, signUpAttempt(data, fault, thrown))

signIn ==
  \E email \in Emails, password \in Passwords,
     fault \in Faults({"findUserByEmail", "createSession"}) :
    \E thrown \in ThrownBy(fault) :
    LET credentials == [email |-> email, password |-> password]
    IN Finish("signIn", email, fault,
              signInAttempt(credentials, fault, thrown))

getSession ==
  \E token \in issued \cup {Forge(t) : t \in issued},
     fault \in Faults({"findUserById"}) :
    \E thrown \in ThrownBy(fault) :
    Finish("getSession", token, fault, getSessionAttempt(token, fault, thrown))

signOut ==
  \E sessionId \in 1..MaxSessions,
     fault \in Faults({"deleteSession"}) :
    \E thrown \in ThrownBy(fault) :
    Finish("signOut", sessionId, fault,
           signOutAttempt(sessionId, fault, thrown))

(***************************************************************************)
(* The environment of the server: the clock and the host application's     *)
(* own use of the collaborator.                                            *)
(***************************************************************************)
tick ==
  /\ now < MaxTicks * TickMs
  /\ now' = now + TickMs
  /\ UNCHANGED <<database, cfgDuration, users, sessionsDb, nextUid, nextSid,
                 issued, call, res, lifecycleCalls, signUps>>
  /\ UNCHANGED <<syncVars, clientVars>>

\* DatabaseAdapter.deleteUser
deleteUser ==
  /\ database # "none"
  /\ \E u \in users : users' = users \ {u}
  /\ UNCHANGED <<database, cfgDuration, sessionsDb, now, nextUid, nextSid,
                 issued, call, res, lifecycleCalls, signUps>>
  /\ UNCHANGED <<syncVars, clientVars>>

\* DatabaseAdapter.createUser called by the host for an account without a
\* password (metadata carries no hash)
createUser ==
  /\ database # "none"
  /\ nextUid <= MaxUsers
  /\ \E email \in Emails :
       /\ findUserByEmail(email) = <<>>
       /\ users' = users \cup
            {[id |-> nextUid, email |-> email, name |-> "",
              roles |-> <<"user">>, permissions |-> <<>>,
              metadata |-> [k \in {} |-> <<"str", "">>]]}
  /\ nextUid' = nextUid + 1
  /\ UNCHANGED <<database, cfgDuration, sessionsDb, now, nextSid,
                 issued, call, res, lifecycleCalls, signUps>>
  /\ UNCHANGED <<syncVars, clientVars>>

NoCall == [op |-> "none", arg |-> <<>>, fault |-> "none"]

\* no message event has been delivered
NoMessage == [valid |-> FALSE, type |-> "none", session |-> ""]

(***************************************************************************)
(* Construction of the client side.                                        *)
(***************************************************************************)
\* config.sessionStorage; "" stands for "not given"
StorageConfigs == {"", "localStorage", "sessionStorage", "cookie", "indexedDB"}

\* part_010 650-651: the default is localStorage and so is 'cookie'
storageType ==
  IF storageConfig \in {"", "cookie"} THEN "localStorage" ELSE storageConfig

NoStoreCall ==
  [op |-> "none", arg |-> <<>>, outcome |-> "none", value |-> <<>>]

NoItems == [local |-> <<>>, session |-> <<>>, idb |-> <<>>]

\* new SessionStorage(config) (part_010 649-656) in a browser whose
\* storages hold stored; opens tells whether indexedDB.open succeeds
SessionStorageConstructed(config, stored, opens) ==
  /\ storageConfig = config
  /\ localItem = stored.local
  /\ sessionItem = stored.session
  /\ idbItem = stored.idb
  /\ idbOpens = opens
  /\ db = FALSE
  /\ initPending = (config = "indexedDB")
  /\ unhandled = 0
  /\ storeCall = NoStoreCall
  /\ lastSet = <<>>

\* a WebSocketSync as constructed: ws null, no callbacks (websocket.ts 9-22)
NewSync == [ws |-> 0, callbacks |-> 0]

NoClientStep ==
  [op |-> "none", found |-> FALSE, ok |-> FALSE, shape |-> "",
   token |-> <<>>, session |-> <<>>, sent |-> FALSE, answer |-> "none"]

\* the first render of AuthProvider (part_010 384-390), before any effect
\* has run; props.stable tells whether the config prop keeps its identity
Rendered(props) ==
  /\ authUser = <<>>
  /\ authSession = <<>>
  /\ isLoading = TRUE
  /\ syncEnabled = props.sessionSyncEnabled
  /\ stableConfig = props.stable
  /\ renders = 1
  /\ syncs = IF props.sessionSyncEnabled THEN <<NewSync>> ELSE <<>>
  /\ psockets = <<>>
  /\ signInSync = 1
  /\ signOutSync = 1
  /\ interval = <<>>
  /\ clientNow = 0
  /\ initDone = FALSE
  /\ unmounted = FALSE
  /\ expiredFired = 0
  /\ pushes = 0
  /\ signedOut = FALSE
  /\ watch = <<>>
  /\ closure = [user |-> <<>>, session |-> <<>>]
  /\ signOutsPending = 0
  /\ lastClient = NoClientStep

\* no browser takes part: a store and a provider as constructed, untouched
NoClient ==
  /\ SessionStorageConstructed("", NoItems, TRUE)
  /\ Rendered([sessionSyncEnabled |-> FALSE, stable |-> TRUE])

NoResponse ==
  [outcome |-> "none", success |-> FALSE, error |-> <<>>,
   user |-> <<>>, token |-> <<>>, session |-> <<>>]

\* the state after construction; config is what the constructor was given
Constructed(config) ==
  /\ database = config.database
  /\ cfgDuration = config.sessionDuration
  /\ users = {}
  /\ sessionsDb = {}
  /\ now = 0
  /\ nextUid = 1
  /\ nextSid = 1
  /\ issued = {}
  /\ call = NoCall
  /\ res = NoResponse
  /\ lifecycleCalls = [onSignIn |-> <<>>, onSignOut |-> 0]
  /\ signUps = <<>>
  /\ ws = 0
  /\ sockets = <<>>
  /\ reconnectAttempts = 0
  /\ timers = <<>>
  /\ sessionUpdateCallbacks = 0
  /\ seen = <<>>
  /\ received = 0
  /\ lastMessage = NoMessage
  /\ scheduled = <<>>
  /\ connectCalls = 0
  /\ everOpened = FALSE
  /\ justOpened = FALSE
  /\ reconnected = 0
  /\ quiet = FALSE

InitAuth ==
  \E adapter \in AdapterKinds, duration \in ConfigDurations :
    Constructed([database |-> adapter, sessionDuration |-> duration])
    /\ NoClient

NextAuth ==
  \/ signUp
  \/ signIn
  \/ getSession
  \/ signOut
  \/ tick
  \/ deleteUser
  \/ createUser

(***************************************************************************)
(* WebSocketSync.                                                          *)
(***************************************************************************)
\* private maxReconnectAttempts = 5
maxReconnectAttempts == 5
\* private reconnectDelay = 1000
reconnectDelay == 1000

\* sockets constructed in one run
MaxSockets == 7
\* connect() calls by the owner in one run
MaxConnectCalls == 2
\* listeners registered in one run
MaxListeners == 2
\* message events in one run
MaxMessages == 2

Tokens == {"t1"}
PushedSessions == {"sA", "sB"}
\* event.data of a message event: a session_update, valid JSON of another
\* shape, and a string that is not JSON
Payloads ==
  {[valid |-> TRUE, type |-> "session_update", session |-> x] : x \in PushedSessions}
  \cup {[valid |-> TRUE, type |-> "ping", session |-> "sA"],
        [valid |-> FALSE, type |-> "", session |-> ""]}

\* a new WebSocketSync; no server is constructed in its process
InitSync ==
  Constructed([database |-> "none", sessionDuration |-> 0]) /\ NoClient

\* the body of connect(token): a new socket whose four callbacks are set;
\* pending is the timer list the call leaves
connectBody(token, pending) ==
  /\ Len(sockets) < MaxSockets
  /\ sockets' = Append(sockets, [readyState |-> "CONNECTING", token |-> token])
  /\ ws' = Len(sockets) + 1
  /\ timers' = pending
  /\ UNCHANGED <<reconnectAttempts, sessionUpdateCallbacks, seen, received,
                 lastMessage,
                 scheduled, everOpened>>

\* attemptReconnect with a delay that grows linearly
attemptReconnect_linear(token) ==
  IF reconnectAttempts >= maxReconnectAttempts
  THEN UNCHANGED <<reconnectAttempts, timers, scheduled>>
  ELSE /\ reconnectAttempts' = reconnectAttempts + 1
       /\ timers' = Append(timers,
            [delay |-> reconnectDelay * (reconnectAttempts + 1), token |-> token])
       /\ scheduled' = Append(scheduled, reconnectDelay * (reconnectAttempts + 1))

\* attemptReconnect(token), websocket.ts 72-88; the exponent is
\* this.reconnectAttempts - 1 taken after the increment
attemptReconnect(token) ==
  IF reconnectAttempts >= maxReconnectAttempts
  THEN UNCHANGED <<reconnectAttempts, timers, scheduled>>
  ELSE /\ reconnectAttempts' = reconnectAttempts + 1
       /\ timers' = Append(timers,
            [delay |-> reconnectDelay * 2 ^ ((reconnectAttempts + 1) - 1),
             token |-> token])
       /\ scheduled' = Append(scheduled,
            reconnectDelay * 2 ^ ((reconnectAttempts + 1) - 1))

\* the channel has given up: the last close found the attempt counter at
\* the cap (websocket.ts 73-76), so no socket is alive and no retry is
\* pending
givenUp ==
  /\ reconnectAttempts >= maxReconnectAttempts
  /\ timers = <<>>
  /\ sockets # <<>>
  /\ \A k \in DOMAIN sockets : sockets[k].readyState = "CLOSED"

\* connect(token) called by the owner of the channel
connect ==
  /\ connectCalls < MaxConnectCalls
  /\ \E token \in Tokens : connectBody(token, timers)
  /\ connectCalls' = connectCalls + 1
  /\ quiet' = FALSE
  /\ reconnected' = IF givenUp THEN Len(sockets) + 1 ELSE reconnected
  /\ UNCHANGED justOpened
  /\ UNCHANGED <<authVars, clientVars>>

\* the setTimeout callback of attemptReconnect: this.connect(token).
\* Timers are taken in any order.
timerFires ==
  /\ \E i \in DOMAIN timers :
       connectBody(timers[i].token,
                   [j \in 1..(Len(timers) - 1) |->
                      IF j < i THEN timers[j] ELSE timers[j + 1]])
  /\ UNCHANGED <<connectCalls, justOpened, reconnected, quiet>>
  /\ UNCHANGED <<authVars, clientVars>>

\* ws.onopen leaving the attempt counter as it is
onopen_noReset ==
  /\ \E k \in DOMAIN sockets :
       /\ sockets[k].readyState = "CONNECTING"
       /\ sockets' = [sockets EXCEPT ![k].readyState = "OPEN"]
  /\ everOpened' = TRUE
  /\ justOpened' = TRUE
  /\ UNCHANGED <<ws, reconnectAttempts, timers, sessionUpdateCallbacks,
                 seen, received, lastMessage, scheduled, connectCalls,
                 reconnected, quiet>>
  /\ UNCHANGED <<authVars, clientVars>>

\* ws.onopen
onopen ==
  /\ \E k \in DOMAIN sockets :
       /\ sockets[k].readyState = "CONNECTING"
       /\ sockets' = [sockets EXCEPT ![k].readyState = "OPEN"]
  /\ reconnectAttempts' = 0
  /\ everOpened' = TRUE
  /\ justOpened' = TRUE
  /\ UNCHANGED <<ws, timers, sessionUpdateCallbacks, seen, received,
                 lastMessage,
                 scheduled, connectCalls, reconnected, quiet>>
  /\ UNCHANGED <<authVars, clientVars>>

\* the body of onmessage that calls the callbacks on any parsed JSON
dispatch_anyType(data, thrower) ==
  IF data.valid
  THEN [i \in DOMAIN seen |->
          IF thrower = 0 \/ i <= thrower
          THEN Append(seen[i], data.session) ELSE seen[i]]
  ELSE seen

\* the body of onmessage (websocket.ts 34-44), giving what each listener
\* has been invoked with after it.  JSON.parse throws on a string that is
\* not JSON.  forEach calls the callbacks in registration order; thrower is
\* the first callback that throws when invoked (0: none does), which ends
\* the forEach.  Whatever is thrown is caught and logged.
dispatch(data, thrower) ==
  IF data.valid /\ data.type = "session_update"
  THEN [i \in DOMAIN seen |->
          IF thrower = 0 \/ i <= thrower
          THEN Append(seen[i], data.session) ELSE seen[i]]
  ELSE seen

\* ws.onmessage of a socket that is open
onmessage ==
  /\ received < MaxMessages
  /\ \E k \in DOMAIN sockets, data \in Payloads,
        thrower \in 0..sessionUpdateCallbacks :
       /\ sockets[k].readyState = "OPEN"
       /\ seen' = dispatch(data, thrower)
       /\ lastMessage' = data
  /\ received' = received + 1
  /\ UNCHANGED <<ws, sockets, reconnectAttempts, timers,
                 sessionUpdateCallbacks, scheduled, connectCalls,
                 everOpened, justOpened, reconnected, quiet>>
  /\ UNCHANGED <<authVars, clientVars>>

\* ws.onclose, for a socket that failed to connect, was closed by the peer
\* or the network, or was closed by close(); ws.onerror before it only logs
onclose ==
  /\ \E k \in DOMAIN sockets :
       /\ sockets[k].readyState # "CLOSED"
       /\ sockets' = [sockets EXCEPT ![k].readyState = "CLOSED"]
       /\ attemptReconnect(sockets[k].token)
  /\ justOpened' = FALSE
  /\ UNCHANGED <<ws, sessionUpdateCallbacks, seen, received,
                 lastMessage, connectCalls,
                 everOpened, reconnected, quiet>>
  /\ UNCHANGED <<authVars, clientVars>>

\* the body of disconnect() without the reset of the attempt counter
disconnectBody_keepsAttempts(w, socks) ==
  [ws |-> 0,
   sockets |->
     IF w # 0 /\ socks[w].readyState \in {"CONNECTING", "OPEN"}
     THEN [socks EXCEPT ![w].readyState = "CLOSING"]
     ELSE socks,
   reconnectAttempts |-> reconnectAttempts]

\* the body of disconnect() (websocket.ts 60-66) on a channel whose
\* this.ws is w and whose sockets are socks: the fields it leaves.
\* close() on a socket that is closing or closed does nothing, and
\* close() without arguments does not throw in any readyState
disconnectBody(w, socks) ==
  [ws |-> 0,
   sockets |->
     IF w # 0 /\ socks[w].readyState \in {"CONNECTING", "OPEN"}
     THEN [socks EXCEPT ![w].readyState = "CLOSING"]
     ELSE socks,
   reconnectAttempts |-> 0]

\* disconnect()
disconnect ==
  /\ ws' = disconnectBody(ws, sockets).ws
  /\ sockets' = disconnectBody(ws, sockets).sockets
  /\ reconnectAttempts' = disconnectBody(ws, sockets).reconnectAttempts
  /\ quiet' = TRUE
  /\ UNCHANGED <<timers, sessionUpdateCallbacks, seen, received,
                 lastMessage, scheduled,
                 connectCalls, everOpened, justOpened, reconnected>>
  /\ UNCHANGED <<authVars, clientVars>>

\* onSessionUpdate(callback)
onSessionUpdate ==
  /\ sessionUpdateCallbacks < MaxListeners
  /\ sessionUpdateCallbacks' = sessionUpdateCallbacks + 1
  /\ seen' = Append(seen, <<>>)
  /\ UNCHANGED <<ws, sockets, reconnectAttempts, timers, received,
                 lastMessage,
                 scheduled, connectCalls, everOpened, justOpened,
                 reconnected, quiet>>
  /\ UNCHANGED <<authVars, clientVars>>

NextSync ==
  \/ connect
  \/ timerFires
  \/ onopen
  \/ onmessage
  \/ onclose
  \/ disconnect
  \/ onSessionUpdate

(***************************************************************************)
(* SessionStorage.                                                         *)
(***************************************************************************)
\* rejected promises left without a holder in one run
MaxUnhandled == 2

\* tokens as jwt.sign gives them: non-empty strings
StoredTokens == {"t1", "t2"}
\* a token an earlier deployment left in localStorage
LeftTokens == {"t0"}

\* initIndexedDB() would resolve: the handle is there or open() succeeds
\* (part_010 658-675); otherwise request.onerror rejects its promise
opensNow == db \/ idbOpens

\* getToken reading localStorage whatever the backend
getTokenResult_localOnly == localItem

\* getToken(), part_010 686-696: for indexedDB the localStorage item
getTokenResult ==
  IF storageType = "sessionStorage" THEN sessionItem ELSE localItem

\* getIndexedDBToken(), part_010 730-743: [outcome, value]
getIndexedDBToken ==
  IF opensNow
  THEN [outcome |-> "resolved", value |-> idbItem]
  ELSE [outcome |-> "rejected", value |-> <<>>]

\* getTokenAsync(), part_010 698-704
getTokenAsyncResult ==
  IF storageType = "indexedDB" THEN getIndexedDBToken
  ELSE [outcome |-> "resolved", value |-> getTokenResult]

\* setIndexedDBToken(token), part_010 715-728
setIndexedDBToken(token) ==
  /\ idbItem' = IF opensNow THEN <<token>> ELSE idbItem
  /\ db' = opensNow

\* what setToken(token) does to the storages, part_010 677-684
setTokenEffect(token) ==
  IF storageType = "indexedDB"
  THEN setIndexedDBToken(token) /\ UNCHANGED <<localItem, sessionItem>>
  ELSE /\ localItem' =
            IF storageType = "localStorage" THEN <<token>> ELSE localItem
       /\ sessionItem' =
            IF storageType = "sessionStorage" THEN <<token>> ELSE sessionItem
       /\ UNCHANGED <<idbItem, db>>

\* the promise setToken returns is fulfilled
setTokenFulfils == storageType # "indexedDB" \/ opensNow

\* clearIndexedDBToken(), part_010 745-758; clearToken drops its promise
clearIndexedDBToken ==
  /\ idbItem' = IF opensNow THEN <<>> ELSE idbItem
  /\ db' = opensNow
  /\ unhandled' = IF opensNow THEN unhandled ELSE unhandled + 1

\* what clearToken() does to the storages, part_010 706-713
clearTokenEffect ==
  IF storageType = "indexedDB"
  THEN clearIndexedDBToken /\ UNCHANGED <<localItem, sessionItem>>
  ELSE /\ localItem' = IF storageType = "localStorage" THEN <<>> ELSE localItem
       /\ sessionItem' =
            IF storageType = "sessionStorage" THEN <<>> ELSE sessionItem
       /\ UNCHANGED <<idbItem, db, unhandled>>

\* the deletion clearToken asked for takes place
clearTokenDeletes == storageType # "indexedDB" \/ opensNow

\* the constructor's initIndexedDB() settles; nobody holds its promise
initIndexedDB ==
  /\ initPending
  /\ initPending' = FALSE
  /\ db' = opensNow
  /\ unhandled' = IF opensNow THEN unhandled ELSE unhandled + 1
  /\ storeCall' = [op |-> "initIndexedDB", arg |-> <<>>,
                   outcome |-> IF opensNow THEN "resolved" ELSE "rejected",
                   value |-> <<>>]
  /\ UNCHANGED <<storageConfig, localItem, sessionItem, idbItem, idbOpens,
                 lastSet>>
  /\ UNCHANGED <<authVars, syncVars, providerVars>>

setToken ==
  /\ \E token \in StoredTokens :
       /\ setTokenEffect(token)
       /\ storeCall' = [op |-> "setToken", arg |-> <<token>>,
                        outcome |-> IF setTokenFulfils THEN "resolved"
                                    ELSE "rejected",
                        value |-> <<>>]
       /\ lastSet' = IF setTokenFulfils THEN <<token>> ELSE lastSet
  /\ UNCHANGED <<storageConfig, idbOpens, initPending, unhandled>>
  /\ UNCHANGED <<authVars, syncVars, providerVars>>

getToken ==
  /\ storeCall' = [op |-> "getToken", arg |-> <<>>, outcome |-> "returned",
                   value |-> getTokenResult]
  /\ UNCHANGED <<storageConfig, localItem, sessionItem, idbItem, idbOpens,
                 db, initPending, unhandled, lastSet>>
  /\ UNCHANGED <<authVars, syncVars, providerVars>>

getTokenAsync ==
  /\ storeCall' = [op |-> "getTokenAsync", arg |-> <<>>,
                   outcome |-> getTokenAsyncResult.outcome,
                   value |-> getTokenAsyncResult.value]
  /\ db' = IF storageType = "indexedDB" THEN opensNow ELSE db
  /\ UNCHANGED <<storageConfig, localItem, sessionItem, idbItem, idbOpens,
                 initPending, unhandled, lastSet>>
  /\ UNCHANGED <<authVars, syncVars, providerVars>>

clearToken ==
  /\ unhandled < MaxUnhandled
  /\ clearTokenEffect
  /\ storeCall' = [op |-> "clearToken", arg |-> <<>>, outcome |-> "returned",
                   value |-> <<>>]
  /\ lastSet' = IF clearTokenDeletes THEN <<>> ELSE lastSet
  /\ UNCHANGED <<storageConfig, idbOpens, initPending>>
  /\ UNCHANGED <<authVars, syncVars, providerVars>>

\* a SessionStorage of any configuration in a fresh browser; where the
\* transactional backend is chosen, localStorage may hold a token of an
\* earlier deployment
InitStore ==
  \E config \in StorageConfigs, opens \in BOOLEAN,
     left \in {<<>>} \cup {<<t>> : t \in LeftTokens} :
    /\ config # "indexedDB" => (opens /\ left = <<>>)
    /\ Constructed([database |-> "none", sessionDuration |-> 0])
    /\ SessionStorageConstructed(config, [NoItems EXCEPT !.local = left], opens)
    /\ Rendered([sessionSyncEnabled |-> FALSE, stable |-> TRUE])

NextStore ==
  \/ initIndexedDB
  \/ setToken
  \/ getToken
  \/ getTokenAsync
  \/ clearToken

\* the store alone
SpecStore == InitStore /\ [][NextStore]_vars

(***************************************************************************)
(* AuthProvider.  A step is the run of one callback up to its end; a fetch *)
(* it awaits is answered at once.  Sockets stay up: their close events and *)
(* the reconnection that follows are the subject of SpecSync.              *)
(***************************************************************************)
\* setInterval(checkExpiry, 60000)
CheckInterval == 60000

\* renders of the provider in one run
MaxRenders == 5
\* session_update messages delivered in one run
MaxPushes == 1
\* WebSockets constructed in one run
MaxPSockets == 2

\* the instants at which the browser is looked at
Instants == {0, 1000, 1100, 60000}

\* config.sessionDuration of the server that answers
ServerDurations == {1000, DefaultSessionDuration}

\* the Session the server makes at the instant created
ServerSession(created, duration) ==
  [sessionId |-> "s1", user |-> [id |-> "u1", name |-> "A"],
   createdAt |-> created,
   expiresAt |-> created + duration]

\* data.session of a session_update message
PushedSession ==
  [sessionId |-> "s1", user |-> [id |-> "u1", name |-> "B"],
   createdAt |-> 0,
   expiresAt |-> DefaultSessionDuration]

\* a Session object that carries no user
PushedSessionNoUser ==
  [sessionId |-> "s1", createdAt |-> 0, expiresAt |-> DefaultSessionDuration]

\* data.session of the session_update messages a server may send: a
\* Session, a Session without user, and none (the key is missing)
PushedPayloads == {<<PushedSession>>, <<PushedSessionNoUser>>, <<>>}

\* session.user, undefined where the object has no such key
sessionUser(session) ==
  IF "user" \in DOMAIN session THEN <<session.user>> ELSE <<>>

\* the argument of updateUser: Partial<User>
UserPatches == {[name |-> "C"]}

\* { ...user, ...data } (part_010 587)
mergeUser(user, data) ==
  [k \in (DOMAIN user) \cup (DOMAIN data) |->
     IF k \in DOMAIN data THEN data[k] ELSE user[k]]

\* { ...session, user: updatedUser } (part_010 590)
withUser(session, updatedUser) ==
  [k \in (DOMAIN session) \cup {"user"} |->
     IF k = "user" THEN updatedUser ELSE session[k]]

\* what GET /session answers: response.ok and the JSON body.  The route
\* made by the CLI answers 200 with the AuthResponse of getSession
\* (part_009 250-270); a body {session} is what initSession reads.
SessionResponses ==
  { [ok |-> o, shape |-> sh, session |-> <<ServerSession(0, d)>>] :
      o \in BOOLEAN, sh \in {"documented", "flat", "failure"},
      d \in ServerDurations }

\* data.session of the parsed body: undefined unless the body has the key
bodySession(response) ==
  IF response.shape = "flat" THEN response.session ELSE <<>>

\* the render that follows a step, with an expiry effect that keeps the
\* timer it has when the session changes to another session
render_keepsInterval(channels, nextSession, changed, sessionChanged) ==
  IF changed
  THEN /\ renders' = renders + 1
       /\ syncs' = IF syncEnabled THEN Append(channels, NewSync) ELSE channels
       /\ signInSync' = IF stableConfig THEN signInSync ELSE renders + 1
       /\ signOutSync' = IF sessionChanged \/ ~stableConfig
                         THEN renders + 1 ELSE signOutSync
       /\ interval' =
            IF ~sessionChanged THEN interval
            ELSE IF nextSession = <<>> THEN <<>>
            ELSE IF interval # <<>> THEN interval
            ELSE <<[due |-> clientNow + CheckInterval, sync |-> renders + 1]>>
  ELSE /\ syncs' = channels
       /\ UNCHANGED <<renders, signInSync, signOutSync, interval>>

\* the render that follows a step which changed state: the body runs
\* again and constructs a WebSocketSync (part_010 390); useCallback keeps
\* signIn and signUp unless config changed (507, 557) and signOut unless
\* session or config changed (583); the expiry effect is cleaned up and run
\* again when session changed (442-457).  channels is what the step left
\* of syncs.
render(channels, nextSession, changed, sessionChanged) ==
  IF changed
  THEN /\ renders' = renders + 1
       /\ syncs' = IF syncEnabled THEN Append(channels, NewSync) ELSE channels
       /\ signInSync' = IF stableConfig THEN signInSync ELSE renders + 1
       /\ signOutSync' = IF sessionChanged \/ ~stableConfig
                         THEN renders + 1 ELSE signOutSync
       /\ interval' =
            IF ~sessionChanged THEN interval
            ELSE IF nextSession = <<>> THEN <<>>
            ELSE <<[due |-> clientNow + CheckInterval, sync |-> renders + 1]>>
  ELSE /\ syncs' = channels
       /\ UNCHANGED <<renders, signInSync, signOutSync, interval>>

\* wsSync.connect(token) and wsSync.onSessionUpdate(callback) on the
\* WebSocketSync of render r (websocket.ts 24-58, 68-70)
syncsAfterConnect(r) ==
  [syncs EXCEPT ![r] = [ws |-> Len(psockets) + 1,
                        callbacks |-> @.callbacks + 1]]

socketsAfterConnect(r) ==
  Append(psockets, [owner |-> r, readyState |-> "CONNECTING"])

\* wsSync.disconnect() on the WebSocketSync of render r (websocket.ts 60-66)
syncsAfterDisconnect(r) == [syncs EXCEPT ![r].ws = 0]

socketsAfterDisconnect(r) ==
  IF syncs[r].ws # 0
     /\ psockets[syncs[r].ws].readyState \in {"CONNECTING", "OPEN"}
  THEN [psockets EXCEPT ![syncs[r].ws].readyState = "CLOSING"]
  ELSE psockets

\* the finally-block of signOut (part_010 572-582) run by the closure that
\* holds the wsSync of render r
signOutFinally(r) ==
  /\ clearTokenEffect
  /\ authUser' = <<>>
  /\ authSession' = <<>>
  /\ psockets' = IF syncEnabled THEN socketsAfterDisconnect(r) ELSE psockets
  /\ render(IF syncEnabled THEN syncsAfterDisconnect(r) ELSE syncs, <<>>,
            authUser # <<>> \/ authSession # <<>>, authSession # <<>>)
  /\ signedOut' = TRUE

\* the initSession effect of the first render (part_010 393-434)
initSession ==
  /\ ~initDone
  /\ ~unmounted
  /\ renders < MaxRenders
  /\ Len(psockets) < MaxPSockets
  /\ initDone' = TRUE
  /\ isLoading' = FALSE
  /\ IF getTokenResult = <<>>
     THEN /\ lastClient' = [NoClientStep EXCEPT !.op = "initSession"]
          /\ render(syncs, authSession, TRUE, FALSE)
          /\ UNCHANGED <<authUser, authSession, psockets, watch, localItem,
                         sessionItem, idbItem, db, unhandled>>
     ELSE \E response \in SessionResponses :
            /\ lastClient' = [NoClientStep EXCEPT
                              !.op = "initSession", !.found = TRUE,
                              !.ok = response.ok, !.shape = response.shape,
                              !.token = getTokenResult,
                              !.session = response.session]
            /\ IF ~response.ok
               THEN \* storage.clearToken()
                    /\ clearTokenEffect
                    /\ render(syncs, authSession, TRUE, FALSE)
                    /\ UNCHANGED <<authUser, authSession, psockets, watch>>
               ELSE IF bodySession(response) = <<>>
               THEN \* setSession(undefined); data.session.user throws a
                    \* TypeError; the catch-block clears the token
                    /\ authSession' = <<>>
                    /\ clearTokenEffect
                    /\ watch' = <<>>
                    /\ render(syncs, <<>>, TRUE, TRUE)
                    /\ UNCHANGED <<authUser, psockets>>
               ELSE /\ authSession' = bodySession(response)
                    /\ authUser' = <<bodySession(response)[1].user>>
                    /\ watch' = <<>>
                    /\ psockets' = IF syncEnabled THEN socketsAfterConnect(1)
                                   ELSE psockets
                    /\ render(IF syncEnabled THEN syncsAfterConnect(1)
                              ELSE syncs,
                              bodySession(response), TRUE, TRUE)
                    /\ UNCHANGED <<localItem, sessionItem, idbItem, db,
                                   unhandled>>
  /\ UNCHANGED <<syncEnabled, stableConfig, clientNow, unmounted,
                 expiredFired, pushes, signedOut>>
  /\ UNCHANGED <<storageConfig, idbOpens, initPending, storeCall, lastSet>>
  /\ UNCHANGED <<closure, signOutsPending>>
  /\ UNCHANGED <<authVars, syncVars>>

\* the continuation of signIn and of signUp after the answer has been
\* parsed (part_010 469-498, 519-548); succeeded is data.success
signedInWith(op, succeeded, durations) ==
  /\ lastClient' = [NoClientStep EXCEPT !.op = op, !.ok = succeeded]
  /\ IF succeeded
     THEN \E token \in {"t1"}, duration \in durations :
            LET data == [token |-> token,
                         session |-> ServerSession(clientNow, duration)]
            IN /\ renders < MaxRenders
               /\ Len(psockets) < MaxPSockets
               /\ setTokenEffect(data.token)
               /\ unhandled' = IF setTokenFulfils THEN unhandled
                               ELSE unhandled + 1
               /\ authSession' = <<data.session>>
               /\ authUser' = <<data.session.user>>
               /\ psockets' = IF syncEnabled
                              THEN socketsAfterConnect(signInSync)
                              ELSE psockets
               /\ render(IF syncEnabled THEN syncsAfterConnect(signInSync)
                         ELSE syncs,
                         <<data.session>>, TRUE, TRUE)
               /\ signedOut' = FALSE
               /\ watch' = <<data.session>>
               /\ expiredFired' = 0
     ELSE UNCHANGED <<authUser, authSession, renders, syncs, psockets,
                      signInSync, signOutSync, interval, signedOut, watch,
                      expiredFired, localItem, sessionItem, idbItem, db,
                      unhandled>>
  /\ UNCHANGED <<isLoading, syncEnabled, stableConfig, clientNow, initDone,
                 unmounted, pushes>>
  /\ UNCHANGED <<storageConfig, idbOpens, initPending, storeCall, lastSet>>
  /\ UNCHANGED <<closure, signOutsPending>>
  /\ UNCHANGED <<authVars, syncVars>>

\* against a server of any of the session durations
signedIn(op, succeeded) == signedInWith(op, succeeded, ServerDurations)

\* signIn(credentials) of the context value
AuthProvider_signIn ==
  /\ ~unmounted
  /\ \E succeeded \in BOOLEAN : signedIn("signIn", succeeded)

\* signUp(data) of the context value
AuthProvider_signUp ==
  /\ ~unmounted
  /\ \E succeeded \in BOOLEAN : signedIn("signUp", succeeded)

\* what becomes of the fetch of signOut: the server answers 200, answers
\* an error status, or the fetch rejects
SignOutAnswers == {"ok", "error", "throws"}

\* signOut sending its request whenever a token is stored
signOutSends_tokenOnly == getTokenResult # <<>>

\* signOut sends its request (part_010 561-562): storage.getToken() gave a
\* token and the session signOut captured is set; signOut is made anew
\* whenever session changes (part_010 583)
signOutSends == getTokenResult # <<>> /\ authSession # <<>>

\* signOut() of the context value (part_010 559-583); the answer of the
\* fetch is not looked at, and a rejection is caught and logged
AuthProvider_signOut ==
  /\ ~unmounted
  /\ renders < MaxRenders
  /\ signOutFinally(signOutSync)
  /\ watch' = <<>>
  /\ \E answer \in SignOutAnswers :
       lastClient' = [NoClientStep EXCEPT
                        !.op = "signOut",
                        !.token = getTokenResult,
                        !.session = authSession,
                        !.sent = signOutSends,
                        !.answer = IF signOutSends THEN answer ELSE "none"]
  /\ UNCHANGED <<isLoading, syncEnabled, stableConfig, clientNow, initDone,
                 unmounted, expiredFired, pushes>>
  /\ UNCHANGED <<storageConfig, idbOpens, initPending, storeCall, lastSet>>
  /\ UNCHANGED <<closure, signOutsPending>>
  /\ UNCHANGED <<authVars, syncVars>>

\* the interval callback (part_010 445-453), not before it is due; the
\* signOut it calls is the one of the render that armed it
checkExpiry ==
  /\ interval # <<>>
  /\ clientNow >= interval[1].due
  /\ renders < MaxRenders
  /\ lastClient' = [NoClientStep EXCEPT !.op = "checkExpiry"]
  /\ IF clientNow >= authSession[1].expiresAt
     THEN /\ signOutFinally(interval[1].sync)
          /\ expiredFired' = expiredFired + 1
     ELSE /\ interval' = <<[interval[1] EXCEPT !.due = @ + CheckInterval]>>
          /\ UNCHANGED <<authUser, authSession, renders, syncs, psockets,
                         signInSync, signOutSync, signedOut, expiredFired,
                         localItem, sessionItem, idbItem, db, unhandled>>
  /\ UNCHANGED <<isLoading, syncEnabled, stableConfig, clientNow, initDone,
                 unmounted, pushes, watch>>
  /\ UNCHANGED <<storageConfig, idbOpens, initPending, storeCall, lastSet>>
  /\ UNCHANGED <<closure, signOutsPending>>
  /\ UNCHANGED <<authVars, syncVars>>

\* time passes in the browser
clientTick ==
  /\ \E t \in Instants :
       /\ t > clientNow
       /\ \A u \in Instants : u > clientNow => t <= u
       /\ clientNow' = t
  /\ UNCHANGED <<authUser, authSession, isLoading, syncEnabled, stableConfig,
                 renders, syncs, psockets, signInSync, signOutSync, interval,
                 initDone, unmounted, expiredFired, pushes, signedOut, watch,
                 lastClient>>
  /\ UNCHANGED <<closure, signOutsPending>>
  /\ UNCHANGED <<storeVars, authVars, syncVars>>

\* ws.onopen of a socket some WebSocketSync constructed
socketOpens ==
  /\ \E k \in DOMAIN psockets :
       /\ psockets[k].readyState = "CONNECTING"
       /\ psockets' = [psockets EXCEPT ![k].readyState = "OPEN"]
  /\ UNCHANGED <<authUser, authSession, isLoading, syncEnabled, stableConfig,
                 renders, syncs, signInSync, signOutSync, interval, clientNow,
                 initDone, unmounted, expiredFired, pushes, signedOut, watch,
                 lastClient>>
  /\ UNCHANGED <<closure, signOutsPending>>
  /\ UNCHANGED <<storeVars, authVars, syncVars>>

\* ws.onmessage with a session_update on an open socket: the callbacks its
\* WebSocketSync holds run setSession(updatedSession) and
\* setUser(updatedSession.user) (part_010 417-420, 485-488, 535-538).
\* Where the message has no session, reading .user of undefined throws
\* after setSession; onmessage catches it (websocket.ts 42-44).
sessionPush ==
  /\ pushes < MaxPushes
  /\ renders < MaxRenders
  /\ ~unmounted
  /\ \E k \in DOMAIN psockets :
       /\ psockets[k].readyState = "OPEN"
       /\ syncs[psockets[k].owner].callbacks > 0
  /\ pushes' = pushes + 1
  /\ \E updatedSession \in PushedPayloads :
       /\ authSession' = updatedSession
       /\ authUser' = IF updatedSession = <<>> THEN authUser
                      ELSE sessionUser(updatedSession[1])
       /\ render(syncs, updatedSession, TRUE, TRUE)
       /\ lastClient' = [NoClientStep EXCEPT !.op = "sessionPush",
                                             !.session = updatedSession]
  /\ watch' = <<>>
  /\ UNCHANGED <<isLoading, syncEnabled, stableConfig, psockets, clientNow,
                 initDone, unmounted, expiredFired, signedOut>>
  /\ UNCHANGED <<closure, signOutsPending>>
  /\ UNCHANGED <<storeVars, authVars, syncVars>>

\* a component that uses the context renders again and takes the
\* updateUser of the provider's latest render
consumerRenders ==
  /\ ~unmounted
  /\ closure # [user |-> authUser, session |-> authSession]
  /\ closure' = [user |-> authUser, session |-> authSession]
  /\ UNCHANGED <<authUser, authSession, isLoading, syncEnabled, stableConfig,
                 renders, syncs, psockets, signInSync, signOutSync, interval,
                 clientNow, initDone, unmounted, expiredFired, pushes,
                 signedOut, watch, signOutsPending, lastClient>>
  /\ UNCHANGED <<storeVars, authVars, syncVars>>

\* what updateUser(data) (part_010 585-592) writes: nothing where the
\* captured user is null, else the captured user with data spread over
\* it, and the captured session with that user where one was captured
updateUserWrites(data) ==
  IF closure.user = <<>>
  THEN UNCHANGED <<authUser, authSession>>
  ELSE /\ authUser' = <<mergeUser(closure.user[1], data)>>
       /\ authSession' =
            IF closure.session = <<>> THEN authSession
            ELSE <<withUser(closure.session[1],
                            mergeUser(closure.user[1], data))>>

\* updateUser(data) of the context value, called through the function the
\* caller holds
AuthProvider_updateUser ==
  /\ ~unmounted
  /\ renders < MaxRenders
  /\ \E data \in UserPatches : updateUserWrites(data)
  /\ render(syncs, closure.session, closure.user # <<>>,
            closure.user # <<>> /\ closure.session # <<>>)
  /\ watch' = IF closure.user = <<>> THEN watch ELSE <<>>
  /\ lastClient' = [NoClientStep EXCEPT !.op = "updateUser",
                                        !.session = closure.session]
  /\ UNCHANGED <<isLoading, syncEnabled, stableConfig, psockets, clientNow,
                 initDone, unmounted, expiredFired, pushes, signedOut,
                 closure, signOutsPending>>
  /\ UNCHANGED <<storeVars, authVars, syncVars>>

\* the cleanups of the effects on unmount (part_010 436-438, 456): the
\* first render's wsSync is disconnected, the interval is cleared
unmount ==
  /\ ~unmounted
  /\ unmounted' = TRUE
  /\ interval' = <<>>
  /\ syncs' = IF syncEnabled THEN syncsAfterDisconnect(1) ELSE syncs
  /\ psockets' = IF syncEnabled THEN socketsAfterDisconnect(1) ELSE psockets
  /\ watch' = <<>>
  /\ lastClient' = [NoClientStep EXCEPT !.op = "unmount"]
  /\ UNCHANGED <<authUser, authSession, isLoading, syncEnabled, stableConfig,
                 renders, signInSync, signOutSync, clientNow, initDone,
                 expiredFired, pushes, signedOut>>
  /\ UNCHANGED <<closure, signOutsPending>>
  /\ UNCHANGED <<storeVars, authVars, syncVars>>

\* the storage configurations the provider is run with
ProviderStorageConfigs == {"", "indexedDB"}

\* a provider just rendered, in a browser that holds no token or the token
\* an earlier page load stored through the same configuration
InitProvider ==
  \E config \in ProviderStorageConfigs, sync \in BOOLEAN, stable \in BOOLEAN,
     stored \in {<<>>, <<"t1">>} :
    /\ Constructed([database |-> "none", sessionDuration |-> 0])
    /\ SessionStorageConstructed(
         config,
         IF config = "indexedDB" THEN [NoItems EXCEPT !.idb = stored]
         ELSE [NoItems EXCEPT !.local = stored],
         TRUE)
    /\ Rendered([sessionSyncEnabled |-> sync, stable |-> stable])

NextProvider ==
  \/ initSession
  \/ AuthProvider_signIn
  \/ AuthProvider_signUp
  \/ AuthProvider_signOut
  \/ checkExpiry
  \/ clientTick
  \/ socketOpens
  \/ sessionPush
  \/ consumerRenders
  \/ AuthProvider_updateUser
  \/ unmount

(***************************************************************************)
(* The session monitor over unbounded time.  Time is measured from the     *)
(* present: instead of Date.now() growing, the instants the provider holds *)
(* (expiresAt, createdAt, the due time of the timer) move back, and an     *)
(* instant further back than Horizon is kept as Horizon.  The provider     *)
(* compares instants with Date.now() only, so it cannot tell the two       *)
(* apart.  Session sync is off, no WebSocketSync is made, and renders are  *)
(* not counted.  A fetch of signOut may stay unanswered while timers fire. *)
(***************************************************************************)
\* the time that passes in one step
ElapseMs == 30000
\* the instant beyond which the past is not told apart
Horizon == 0 - CheckInterval
\* signOut calls awaiting their fetch in one run
MaxPending == 2
\* config.sessionDuration of the server the monitored provider talks to
MonitorDurations == {1000}

back(t) == IF t - ElapseMs < Horizon THEN Horizon ELSE t - ElapseMs

sessionsBack(held) ==
  [i \in DOMAIN held |->
     [k \in DOMAIN held[i] |->
        IF k \in {"expiresAt", "createdAt"} THEN back(held[i][k])
        ELSE held[i][k]]]

\* ElapseMs pass
elapse ==
  /\ authSession' = sessionsBack(authSession)
  /\ watch' = sessionsBack(watch)
  /\ closure' = [closure EXCEPT !.session = sessionsBack(@)]
  /\ lastClient' = [lastClient EXCEPT !.session = sessionsBack(@)]
  /\ interval' = [i \in DOMAIN interval |->
                    [interval[i] EXCEPT !.due = back(@)]]
  /\ UNCHANGED <<authUser, isLoading, syncEnabled, stableConfig, renders,
                 syncs, psockets, signInSync, signOutSync, clientNow,
                 initDone, unmounted, expiredFired, pushes, signedOut,
                 signOutsPending>>
  /\ UNCHANGED <<storeVars, authVars, syncVars>>

\* signIn(credentials) answered with success
monitorSignIn ==
  /\ ~unmounted
  /\ signedInWith("signIn", TRUE, MonitorDurations)

\* updateUser(data) of a consumer that has rendered the state the provider
\* holds; the expiry effect runs again when the session was replaced
\* (part_010 441-457)
monitorUpdateUser ==
  /\ ~unmounted
  /\ closure = [user |-> authUser, session |-> authSession]
  /\ \E data \in UserPatches : updateUserWrites(data)
  /\ interval' =
       IF closure.user # <<>> /\ closure.session # <<>>
       THEN <<[due |-> clientNow + CheckInterval, sync |-> renders]>>
       ELSE interval
  /\ watch' = IF closure.user = <<>> THEN watch ELSE <<>>
  /\ lastClient' = [NoClientStep EXCEPT !.op = "updateUser",
                                        !.session = closure.session]
  /\ UNCHANGED <<isLoading, syncEnabled, stableConfig, renders, syncs,
                 psockets, signInSync, signOutSync, clientNow, initDone,
                 unmounted, expiredFired, pushes, signedOut, closure,
                 signOutsPending>>
  /\ UNCHANGED <<storeVars, authVars, syncVars>>

\* the interval callback (part_010 445-453) when it is due.  On an expired
\* session it calls signOut() and config.onSessionExpired; signOut awaits
\* its fetch where it sends one (part_010 561-568), and until the answer
\* the session stays and the interval keeps running, each run one interval
\* after the one before
checkExpiryAwaits ==
  /\ interval # <<>>
  /\ clientNow >= interval[1].due
  /\ signOutsPending < MaxPending
  /\ lastClient' = [NoClientStep EXCEPT !.op = "checkExpiry"]
  /\ IF clientNow >= authSession[1].expiresAt
     THEN /\ expiredFired' = expiredFired + 1
          /\ IF signOutSends
             THEN /\ signOutsPending' = signOutsPending + 1
                  /\ interval' =
                       <<[interval[1] EXCEPT !.due = clientNow + CheckInterval]>>
                  /\ UNCHANGED <<authUser, authSession, renders, syncs,
                                 psockets, signInSync, signOutSync, signedOut,
                                 localItem, sessionItem, idbItem, db,
                                 unhandled>>
             ELSE /\ signOutFinally(interval[1].sync)
                  /\ UNCHANGED signOutsPending
     ELSE /\ interval' = 
               <<[interval[1] EXCEPT !.due = clientNow + CheckInterval]>>
          /\ UNCHANGED <<authUser, authSession, renders, syncs, psockets,
                         signInSync, signOutSync, signedOut, expiredFired,
                         signOutsPending, localItem, sessionItem, idbItem,
                         db, unhandled>>
  /\ UNCHANGED <<isLoading, syncEnabled, stableConfig, clientNow, initDone,
                 unmounted, pushes, watch, closure>>
  /\ UNCHANGED <<storageConfig, idbOpens, initPending, storeCall, lastSet>>
  /\ UNCHANGED <<authVars, syncVars>>

\* the fetch of a signOut is answered or fails: its finally-block runs
\* (part_010 572-582)
signOutSettles ==
  /\ signOutsPending > 0
  /\ signOutsPending' = signOutsPending - 1
  /\ signOutFinally(signOutSync)
  /\ watch' = <<>>
  /\ lastClient' = [NoClientStep EXCEPT !.op = "signOut", !.sent = TRUE]
  /\ UNCHANGED <<isLoading, syncEnabled, stableConfig, clientNow, initDone,
                 unmounted, expiredFired, pushes, closure>>
  /\ UNCHANGED <<storageConfig, idbOpens, initPending, storeCall, lastSet>>
  /\ UNCHANGED <<authVars, syncVars>>

\* a provider just rendered, session sync off, localStorage empty
InitMonitor ==
  /\ Constructed([database |-> "none", sessionDuration |-> 0])
  /\ SessionStorageConstructed("", NoItems, TRUE)
  /\ Rendered([sessionSyncEnabled |-> FALSE, stable |-> TRUE])

NextMonitor ==
  \/ monitorSignIn
  \/ consumerRenders
  \/ monitorUpdateUser
  \/ elapse
  \/ checkExpiryAwaits
  \/ signOutSettles

\* time keeps passing, a timer that is due fires, a fetch is answered
SpecMonitor ==
  /\ InitMonitor
  /\ [][NextMonitor]_vars
  /\ WF_vars(elapse)
  /\ WF_vars(checkExpiryAwaits)
  /\ WF_vars(signOutSettles)

\* the provider with its store
SpecProvider == InitProvider /\ [][NextProvider]_vars

(***************************************************************************)
(* CredentialHasher and TokenCodec called on their own: hashPassword,      *)
(* verifyPassword, generateToken and verifyToken are public methods.       *)
(***************************************************************************)
\* payloads handed to generateToken
TokenPayloads ==
  [userId : {1}, sessionId : {1},
   exp : 0..((MaxTicks * TickMs) \div 1000 + 1), iat : {0}]

\* a string that is not a JWT: it has no signature part and no claims can
\* be read from it
MalformedToken ==
  [userId |-> 0, sessionId |-> 0, exp |-> 0, iat |-> 0, sig |-> ""]

\* neither method touches the collaborator or the clock
codecFrame ==
  /\ UNCHANGED <<database, cfgDuration, users, sessionsDb, now, nextUid, nextSid,
                 lifecycleCalls, signUps>>
  /\ UNCHANGED <<syncVars, clientVars>>

callHashPassword ==
  \E password \in PasswordInputs :
    /\ call' = [op |-> "hashPassword", arg |-> password, fault |-> "none"]
    /\ res' = [outcome |-> "resolved", value |-> hashPassword(password)]
    /\ UNCHANGED issued
    /\ codecFrame

\* verifyPassword with the hash the preceding hashPassword call returned
callVerifyPassword ==
  /\ call.op = "hashPassword"
  /\ \E password \in PasswordInputs :
       /\ call' = [op |-> "verifyPassword",
                   arg |-> [password |-> password, hash |-> res.value,
                            hashed |-> call.arg],
                   fault |-> "none"]
       /\ res' = [outcome |-> "resolved",
                  matches |-> verifyPassword(password, res.value)]
  /\ UNCHANGED issued
  /\ codecFrame

callGenerateToken ==
  \E payload \in TokenPayloads :
    /\ call' = [op |-> "generateToken", arg |-> payload, fault |-> "none"]
    /\ res' = [outcome |-> "returned", value |-> generateToken(payload)]
    /\ issued' = issued \cup {generateToken(payload)}
    /\ codecFrame

callVerifyToken ==
  \E token \in issued \cup {Forge(t) : t \in issued} \cup {MalformedToken} :
    /\ call' = [op |-> "verifyToken", arg |-> token, fault |-> "none"]
    /\ res' = [outcome |-> "returned", value |-> verifyToken(token)]
    /\ UNCHANGED issued
    /\ codecFrame

InitCodec ==
  /\ Constructed([database |-> "none", sessionDuration |-> 0])
  /\ NoClient

NextCodec ==
  \/ callHashPassword
  \/ callVerifyPassword
  \/ callGenerateToken
  \/ callVerifyToken
  \/ tick

\* the hasher and the codec alone
SpecCodec == InitCodec /\ [][NextCodec]_vars

(***************************************************************************)
(* Concurrent signUp calls.  signUp awaits findUserByEmail, hashPassword,  *)
(* createUser and createSession (core.ts 80, 86, 89, 105); other calls run *)
(* at each await.  The step up to the answer of findUserByEmail and the    *)
(* step from there to the return are each atomic here: the collaborator's  *)
(* calls are atomic and nothing between them reads shared state.           *)
(***************************************************************************)
\* the sign-up data a caller may pass
SignUpInputs ==
  { [email |-> email, password |-> password, name |-> name,
     metadata |-> metadata, roles |-> extra.roles,
     permissions |-> extra.permissions] :
      email \in Emails, password \in SignUpPasswords, name \in Names,
      metadata \in MetaInputs, extra \in SignUpExtras }

\* signUp calls in one run
MaxCalls == 3

\* signUp up to the answer of findUserByEmail
signUpChecks ==
  /\ Len(signUps) < MaxCalls
  /\ \E data \in SignUpInputs :
       LET early == signUpAttempt(data, "none",
                      [nullish |-> FALSE, code |-> "", message |-> "",
                       statusCode |-> 0])
       IN signUps' = Append(signUps,
            IF findUserByEmail(data.email) # <<>>
            THEN [data |-> data, pc |-> "done", response |-> Response(early)]
            ELSE [data |-> data, pc |-> "awaiting", response |-> NoResponse])
  /\ UNCHANGED <<database, cfgDuration, users, sessionsDb, now, nextUid,
                 nextSid, issued, call, res, lifecycleCalls>>
  /\ UNCHANGED <<syncVars, clientVars>>

\* signUp from hashPassword to the return, for a call whose check found no
\* user
signUpCreates ==
  /\ \E i \in DOMAIN signUps :
       /\ signUps[i].pc = "awaiting"
       /\ LET attempt == signUpCreate(database, signUps[i].data, "none",
                            [nullish |-> FALSE, code |-> "", message |-> "",
                             statusCode |-> 0])
          IN /\ users' = attempt.users
             /\ sessionsDb' = attempt.sessionsDb
             /\ issued' = issued \cup {attempt.token[1]}
             /\ call' = [op |-> "signUp", arg |-> signUps[i].data.email,
                         fault |-> "none"]
             /\ res' = Response(attempt)
             /\ signUps' = [signUps EXCEPT ![i] =
                              [data |-> signUps[i].data, pc |-> "done",
                               response |-> Response(attempt)]]
  /\ nextUid' = nextUid + 1
  /\ nextSid' = nextSid + 1
  /\ UNCHANGED <<database, cfgDuration, now, lifecycleCalls>>
  /\ UNCHANGED <<syncVars, clientVars>>

\* a server with a collaborator; no call has been made
InitRace ==
  /\ Constructed([database |-> "lenient", sessionDuration |-> 0])
  /\ NoClient

NextRace ==
  \/ signUpChecks
  \/ signUpCreates

SpecRace == InitRace /\ [][NextRace]_vars

(***************************************************************************)
(* The Express middleware (core.ts 394-454) in front of a server.  A path  *)
(* is the sequence of its segments, "/api/public/x" being                  *)
(* <<"api", "public", "x">>; a pattern is a path whose last segment may be *)
(* "*".                                                                    *)
(***************************************************************************)
RequestPaths ==
  { <<"login">>, <<"api", "public", "x">>, <<"api", "protected">>,
    <<"admin", "users">> }

\* MiddlewareConfig: publicPaths, roleBasedPaths (pattern -> required
\* roles) and what onUnauthorized does ("absent", or returns a "response"
\* or "nothing")
MiddlewareConfigs ==
  [publicPaths : { {}, {<<"login">>, <<"api", "public", "*">>} },
   roleBasedPaths :
     { {}, {[pattern |-> <<"admin", "*">>, roles |-> {"admin"}]},
       {[pattern |-> <<"admin", "*">>, roles |-> {"admin", "user"}]} },
   onUnauthorized : {"absent", "response", "nothing"}]

\* new RegExp("^" + pattern.replace(/\*/g, ".*") + "$").test(pathname)
matchPath(pathname, pattern) ==
  IF pattern # <<>> /\ pattern[Len(pattern)] = "*"
  THEN /\ Len(pathname) >= Len(pattern)
       /\ \A i \in 1..(Len(pattern) - 1) : pathname[i] = pattern[i]
  ELSE pathname = pattern

\* the module's verifyToken(token) (core.ts 529-533): it throws for every
\* token
middlewareVerifyToken(token) == [thrown |-> TRUE, session |-> <<>>]

\* res.status(code).json(...)
Answered(code) ==
  [nextCalled |-> FALSE, status |-> code, reqUser |-> <<>>, reqSession |-> <<>>]

\* next(); user and session are what was attached to req before it
Passed(user, session) ==
  [nextCalled |-> TRUE, status |-> 0, reqUser |-> user, reqSession |-> session]

\* middleware(req, res, next), core.ts 395-453
expressMiddlewareResult(config, request) ==
  IF \E path \in config.publicPaths : matchPath(request.path, path)
  THEN Passed(<<>>, <<>>)
  ELSE IF request.token = <<>> THEN Answered(401)
  ELSE LET verified == middlewareVerifyToken(request.token[1])
       IN IF verified.thrown THEN Answered(401)
          ELSE LET session == verified.session[1]
               IN IF \E rule \in config.roleBasedPaths :
                       /\ matchPath(request.path, rule.pattern)
                       /\ \A role \in rule.roles :
                            \A i \in DOMAIN session.user.roles :
                              session.user.roles[i] # role
                  THEN Answered(403)
                  ELSE Passed(<<session.user>>, <<session>>)

\* one request through the middleware; the token comes from the cookie
\* 'vista-auth-token' or the Authorization header, <<>> when neither is set
expressMiddleware ==
  \E config \in MiddlewareConfigs, path \in RequestPaths,
     token \in {<<>>} \cup {<<t>> : t \in issued \cup {Forge(x) : x \in issued}} :
    /\ call' = [op |-> "expressMiddleware",
                arg |-> [config |-> config, path |-> path, token |-> token,
                         at |-> now],
                fault |-> "none"]
    /\ res' = expressMiddlewareResult(config, [path |-> path, token |-> token])
    /\ UNCHANGED <<database, cfgDuration, users, sessionsDb, now, nextUid,
                   nextSid, issued, lifecycleCalls, signUps>>
    /\ UNCHANGED <<syncVars, clientVars>>

\* a server with a collaborator in pure-token mode behind the middleware
InitExpress ==
  /\ Constructed([database |-> "basic", sessionDuration |-> 1000])
  /\ NoClient

NextExpress ==
  \/ signUp
  \/ tick
  \/ expressMiddleware

SpecExpress == InitExpress /\ [][NextExpress]_vars

\* the server alone; the channel is not constructed
SpecAuth == InitAuth /\ [][NextAuth]_vars

\* the channel alone; the server takes no call
SpecSync == InitSync /\ [][NextSync]_vars


(***************************************************************************)
(* Properties of the server.                                               *)
(***************************************************************************)
\* no collaborator call fails
NoThrow == [nullish |-> FALSE, code |-> "", message |-> "", statusCode |-> 0]

AuthErr(code, message, statusCode) ==
  [code |-> code, message |-> message, statusCode |-> statusCode]

hasHash(email) ==
  /\ findUserByEmail(email) # <<>>
  /\ "password" \in DOMAIN findUserByEmail(email)[1].metadata

\* C1: no user enumeration.  In every store state, signIn with an email
\* that is not stored and signIn with a stored email (whose user has a hash)
\* and a wrong password return the same response: success false, code
\* INVALID_CREDENTIALS, the same message, statusCode 401; neither creates a
\* session.
C1_NoUserEnumeration ==
  \A e1 \in Emails, e2 \in Emails, p1 \in Passwords, p2 \in Passwords :
    ( /\ findUserByEmail(e1) = <<>>
      /\ hasHash(e2)
      /\ ~verifyPassword(p2, findUserByEmail(e2)[1].metadata["password"]) )
    =>
    LET unknown == signInAttempt([email |-> e1, password |-> p1], "none", NoThrow)
        wrong == signInAttempt([email |-> e2, password |-> p2], "none", NoThrow)
    IN /\ Response(unknown) = Response(wrong)
       /\ Response(unknown).outcome = "resolved"
       /\ ~Response(unknown).success
       /\ Response(unknown).error =
            <<AuthErr("INVALID_CREDENTIALS", "Invalid email or password", 401)>>
       /\ unknown.session = <<>> /\ wrong.session = <<>>
       /\ unknown.sessionsDb = sessionsDb /\ wrong.sessionsDb = sessionsDb

\* a signIn with a stored email and a wrong password has just failed, while
\* another email is unknown to the store
C1_Witness ==
  /\ call.op = "signIn"
  /\ call.fault = "none"
  /\ hasHash(call.arg)
  /\ \E e \in Emails : findUserByEmail(e) = <<>>
  /\ res.error = <<AuthErr("INVALID_CREDENTIALS", "Invalid email or password", 401)>>

\* C2: token/session lock-step.  For every successful signUp and signIn the
\* returned token's claims satisfy exp*1000 = session.expiresAt and
\* iat*1000 = session.createdAt, at every clock value and sessionDuration.
C2_LockStep ==
  (call.op \in {"signUp", "signIn"} /\ res.success)
  => /\ res.token[1].exp * 1000 = res.session[1].expiresAt
     /\ res.token[1].iat * 1000 = res.session[1].createdAt

\* C3: sanitization.  In every success response of signUp, signIn and
\* getSession neither the returned user nor the user snapshot inside the
\* returned session carries metadata.password.
C3_Sanitization ==
  res.success
  => /\ \A i \in DOMAIN res.user :
          "password" \notin DOMAIN res.user[i].metadata
     /\ \A i \in DOMAIN res.session :
          "password" \notin DOMAIN res.session[i].user.metadata

\* getSession has succeeded for a user whose stored record holds a hash and
\* whose other metadata is returned
C3_Witness ==
  /\ call.op = "getSession"
  /\ res.success
  /\ "plan" \in DOMAIN res.session[1].user.metadata
  /\ \E u \in users :
       /\ u.id = res.session[1].userId
       /\ "password" \in DOMAIN u.metadata

\* C4: nothing is thrown across the public boundary.  Every call resolves
\* to a response, whatever a collaborator throws or rejects with.
C4_NeverThrows == res.outcome # "rejected"

\* the codes of the taxonomy with their status codes
Taxonomy ==
  { <<"NO_DATABASE", 500>>, <<"USER_EXISTS", 400>>,
    <<"INVALID_CREDENTIALS", 401>>, <<"NO_PASSWORD", 500>>,
    <<"INVALID_TOKEN", 401>>, <<"USER_NOT_FOUND", 404>>,
    <<"INTERNAL_ERROR", 500>> }

\* C5: closed error taxonomy.  Every failed response carries a code of the
\* taxonomy with its listed statusCode, and any collaborator failure is
\* reported as INTERNAL_ERROR with statusCode 500.
C5_ClosedTaxonomy ==
  (res.outcome = "resolved" /\ call.op # "none" /\ ~res.success)
  => /\ Len(res.error) = 1
     /\ <<res.error[1].code, res.error[1].statusCode>> \in Taxonomy
     /\ call.fault # "none"
        => <<res.error[1].code, res.error[1].statusCode>> = <<"INTERNAL_ERROR", 500>>

\* C6: idempotent sign-out.  signOut(sessionId) returns success whether or
\* not a session record for the id exists, for every collaborator whose
\* calls answer.
C6_IdempotentSignOut ==
  (call.op = "signOut" /\ call.fault = "none")
  => (res.outcome = "resolved" /\ res.success)

\* C7: a session is terminated by sign-out.  Once signOut(sessionId) has
\* returned success, getSession of a token carrying that sessionId does not
\* return success.
C7_TerminatedBySignOut ==
  (call.op = "signOut" /\ res.success)
  => \A t \in issued :
       t.sessionId = call.arg
       => ~Response(getSessionAttempt(t, "none", NoThrow)).success

\* the exp claim (seconds) has passed on the clock (milliseconds)
isExpired(token) == (now \div 1000) >= token.exp

\* tokens of any claims, signed with the server's secret (generateToken
\* is public) or another one
AnyTokens ==
  [userId : 1..(MaxUsers + 1), sessionId : 1..MaxSessions,
   exp : 0..((MaxTicks * TickMs) \div 1000 + 1), iat : {0},
   sig : {jwtSecret, "attacker-secret"}]

\* C8: expiry.  For every token whose exp has passed, getSession returns
\* success false with INVALID_TOKEN (401), whatever the collaborator holds
\* or does and whether or not the user exists.
C8_Expiry ==
  \A t \in issued \cup {Forge(x) : x \in issued} \cup AnyTokens :
    \A fault \in {"none", "findUserById"}, thrown \in Thrown :
      isExpired(t)
      => /\ Response(getSessionAttempt(t, fault, thrown)).outcome = "resolved"
         /\ ~Response(getSessionAttempt(t, fault, thrown)).success
         /\ Response(getSessionAttempt(t, fault, thrown)).error =
              <<AuthErr("INVALID_TOKEN", "Invalid or expired token", 401)>>

\* getSession has refused a genuine token: its signature is good, so it was
\* refused for its exp
C8_Witness ==
  /\ call.op = "getSession"
  /\ call.arg.sig = jwtSecret
  /\ isExpired(call.arg)
  /\ res.error = <<AuthErr("INVALID_TOKEN", "Invalid or expired token", 401)>>


(***************************************************************************)
(* Properties of the channel.                                              *)
(***************************************************************************)
IsPrefix(s, t) ==
  /\ Len(s) <= Len(t)
  /\ \A i \in DOMAIN s : s[i] = t[i]

\* the delays of the claim, for base 1000 ms and 5 attempts
BackoffSequence == <<1000, 2000, 4000, 8000, 16000>>

\* connect was called once, no socket has opened, disconnect has not been
\* called since
neverConnected == connectCalls = 1 /\ ~everOpened /\ ~quiet

\* no socket is alive and no retry is pending
atRest ==
  /\ timers = <<>>
  /\ \A k \in DOMAIN sockets : sockets[k].readyState = "CLOSED"

\* C9: backoff sequence.  A channel whose every connection attempt closes
\* without opening schedules its retries with delays 1000, 2000, 4000, 8000,
\* 16000 ms in that order and none after them, and comes to rest only after
\* all five.
C9_BackoffSequence ==
  neverConnected
  => /\ IsPrefix(scheduled, BackoffSequence)
     /\ atRest => scheduled = BackoffSequence

\* the sixth socket has closed: five retries were scheduled and made, and
\* nothing is pending
C9_Witness ==
  /\ neverConnected
  /\ atRest
  /\ Len(sockets) = 6
  /\ scheduled = BackoffSequence
  /\ reconnectAttempts = maxReconnectAttempts

\* C10: cancellation by disconnect.  From the return of disconnect() until
\* the next connect() call no socket is constructed, no retry is scheduled
\* and no listener is invoked.
C10_CancelledByDisconnect ==
  [][(quiet /\ quiet')
     => /\ Len(sockets') = Len(sockets)
        /\ scheduled' = scheduled
        /\ \A i \in DOMAIN seen : seen'[i] = seen[i]]_vars

\* the message event just delivered carried a session_update
sessionUpdateArrived ==
  /\ received' = received + 1
  /\ lastMessage'.valid
  /\ lastMessage'.type = "session_update"

\* the message event just delivered carried anything else
otherMessageArrived ==
  /\ received' = received + 1
  /\ ~(lastMessage'.valid /\ lastMessage'.type = "session_update")

\* C22: malformed inbound payloads are dropped.  A message that is not
\* valid JSON, or is valid JSON of another shape than session_update,
\* invokes no listener, closes no socket, schedules no reconnect, and leaves
\* the attempt counter and the listener list unchanged.
C22_MalformedDropped ==
  [][otherMessageArrived
     => /\ seen' = seen
        /\ sockets' = sockets
        /\ ws' = ws
        /\ timers' = timers
        /\ scheduled' = scheduled
        /\ reconnectAttempts' = reconnectAttempts
        /\ sessionUpdateCallbacks' = sessionUpdateCallbacks]_vars

\* after a session_update that both listeners were invoked with, a string
\* that is not JSON has arrived on a socket that is still open
C22_Witness ==
  /\ received = 2
  /\ lastMessage = [valid |-> FALSE, type |-> "", session |-> ""]
  /\ seen = <<<<"sA">>, <<"sA">>>>
  /\ ws # 0
  /\ sockets[ws].readyState = "OPEN"

\* C23: each inbound session_update invokes every registered listener
\* exactly once with that message's session, message by message in arrival
\* order, so that every listener has last observed the last-received
\* session.
C23_EveryListenerOnce ==
  [][sessionUpdateArrived
     => \A i \in DOMAIN seen :
          seen'[i] = Append(seen[i], lastMessage'.session)]_vars


(***************************************************************************)
(* Properties of the provider.                                             *)
(***************************************************************************)
\* C11: after the provider's signOut has completed, and until the next
\* successful signIn or signUp, session and user are null and no
\* WebSocketSync is left connected: the channel that sign-in or session
\* restore connected is the one sign-out disconnected, so that no later
\* session_update is applied.
C11_SignedOutStaysSignedOut ==
  signedOut
  => /\ authSession = <<>>
     /\ authUser = <<>>
     /\ \A r \in DOMAIN syncs : syncs[r].ws = 0

\* C12: the expiry scenario.  A session of sessionDuration 1000 ms that a
\* sign-in established and that nothing but the expiry check has touched:
\* from 1100 ms after its creation on, the check has signed the client out
\* and has called onSessionExpired exactly once.
C12_ExpiredOnceBy1100 ==
  \A i \in DOMAIN watch :
    ( /\ watch[i].expiresAt - watch[i].createdAt = 1000
      /\ clientNow >= watch[i].createdAt + 1100 )
    => /\ expiredFired = 1
       /\ authSession = <<>>

\* C13: session restoration on mount.  When initSession found a stored
\* token and GET /session answered 200 with the AuthResponse of a
\* successful getSession, {success, data: Session}, the provider is left
\* with isLoading false, session that Session, user its user, and the token
\* still stored.
C13_RestoredOnMount ==
  ( /\ lastClient.op = "initSession"
    /\ lastClient.found
    /\ lastClient.ok
    /\ lastClient.shape = "documented" )
  => /\ ~isLoading
     /\ authSession = lastClient.session
     /\ \A i \in DOMAIN lastClient.session :
          authUser = <<lastClient.session[i].user>>
     /\ getTokenResult = lastClient.token


C15_DegradesToNoToken ==
  (storageType = "indexedDB" /\ ~idbOpens)
  => /\ unhandled = 0
     /\ storeCall.outcome # "rejected"
     /\ storeCall.op = "getTokenAsync"
        => (storeCall.outcome = "resolved" /\ storeCall.value = <<>>)

\* the attempt failed with this error and wrote nothing
refusedWith(attempt, error) ==
  /\ Response(attempt).outcome = "resolved"
  /\ ~Response(attempt).success
  /\ Response(attempt).error = <<error>>
  /\ attempt.users = users
  /\ attempt.sessionsDb = sessionsDb
  /\ attempt.session = <<>>
  /\ attempt.token = <<>>

C18_SessionTimes ==
  (call.op \in {"signUp", "signIn", "getSession"} /\ res.success)
  => /\ Len(res.session) = 1
     /\ res.session[1].expiresAt > res.session[1].createdAt
     /\ call.op \in {"signUp", "signIn"}
        => res.session[1].expiresAt =
             res.session[1].createdAt +
               (IF cfgDuration = 0 THEN 7 * 24 * 60 * 60 * 1000 ELSE cfgDuration)

\* with no duration configured, a signIn has succeeded after the clock has
\* moved on: its session lasts 7 days from then
C18_Witness ==
  /\ call.op = "signIn"
  /\ res.success
  /\ cfgDuration = 0
  /\ res.session[1].createdAt > 0
  /\ res.session[1].expiresAt = res.session[1].createdAt + 604800000

\* the claims a token carries
claimsOf(token) ==
  [userId |-> token.userId, sessionId |-> token.sessionId,
   exp |-> token.exp, iat |-> token.iat]

\* C19: verifyToken is total and sound.  It returns the claims exactly for
\* a token that generateToken produces with this secret and whose exp has
\* not passed; for every other input (another signature or secret, a
\* malformed string, an expired token) it returns null, and it never throws.
C19_VerifyTokenTotalSound ==
  /\ \A t \in issued \cup {Forge(x) : x \in issued} \cup AnyTokens \cup {MalformedToken} :
       IF t = generateToken(claimsOf(t)) /\ ~isExpired(t)
       THEN verifyToken(t) = <<claimsOf(t)>>
       ELSE verifyToken(t) = <<>>
  /\ call.op = "verifyToken" => res.outcome = "returned"

\* verifyToken has just returned null for an expired token of this server,
\* while another token of this server still verifies
C19_Witness ==
  /\ call.op = "verifyToken"
  /\ call.arg \in issued
  /\ isExpired(call.arg)
  /\ res.value = <<>>
  /\ \E t \in issued : verifyToken(t) = <<claimsOf(t)>>

\* C20: hash round trip.  For all passwords p, verifyPassword(p,
\* hashPassword(p)) is true, and for all p2 # p, verifyPassword(p2,
\* hashPassword(p)) is false.
C20_HashRoundTrip ==
  call.op = "verifyPassword"
  => (res.matches <=> call.arg.password = call.arg.hashed)

\* what a caller sees of an attempt, and the user records after it
observed(attempt) == <<Response(attempt), attempt.users>>

\* C21: pure-token mode is equivalent to session-capable mode.  Wherever a
\* server with a session-capable collaborator stands, after any sequence of
\* signUp, signIn, getSession and signOut, a server whose collaborator lacks
\* the session methods returns for every call the same result and keeps the
\* same users; and in pure-token mode signOut returns success without
\* calling the collaborator.
C21_PureTokenEquivalence ==
  sessionOps(database)
  => /\ \A data \in SignUpInputs :
          observed(signUpAttemptWith("basic", data, "none", NoThrow))
            = observed(signUpAttempt(data, "none", NoThrow))
     /\ \A email \in Emails, password \in Passwords :
          observed(signInAttemptWith("basic", [email |-> email, password |-> password],
                                     "none", NoThrow))
            = observed(signInAttempt([email |-> email, password |-> password],
                                     "none", NoThrow))
     /\ \A token \in issued \cup {Forge(t) : t \in issued} :
          observed(getSessionAttemptWith("basic", token, "none", NoThrow))
            = observed(getSessionAttempt(token, "none", NoThrow))
     /\ \A sessionId \in 1..MaxSessions :
          /\ observed(signOutAttemptWith("basic", sessionId, "none", NoThrow))
               = observed(signOutAttempt(sessionId, "none", NoThrow))
          /\ \A thrown \in Thrown :
               LET pure == signOutAttemptWith("basic", sessionId, "deleteSession", thrown)
               IN /\ Response(pure).success
                  /\ ~pure.faulted
                  /\ pure.sessionsDb = sessionsDb

(***************************************************************************)
(* Properties of the middleware.                                           *)
(***************************************************************************)
\* the request may pass: its path is public, or its token is one the server
\* accepts and, for every role-based pattern that matches the path, the
\* session's user has one of the required roles
mayPass(config, path, token) ==
  \/ \E pattern \in config.publicPaths : matchPath(path, pattern)
  \/ /\ token # <<>>
     /\ LET attempt == getSessionAttempt(token[1], "none", NoThrow)
        IN /\ Response(attempt).success
           /\ \A rule \in config.roleBasedPaths :
                matchPath(path, rule.pattern)
                => \E role \in rule.roles :
                     \E i \in DOMAIN attempt.session[1].user.roles :
                       attempt.session[1].user.roles[i] = role

\* C24: the Express middleware calls next() exactly when the path matches
\* a public path, or the request carries a token the auth server accepts
\* and the session's user has a required role wherever a role-based pattern
\* matches (req.user and req.session then being set); every other request
\* is answered 401 or 403 without next().
C24_NextExactlyWhenAllowed ==
  (call.op = "expressMiddleware" /\ call.arg.at = now)
  => /\ res.nextCalled <=> mayPass(call.arg.config, call.arg.path, call.arg.token)
     /\ ~res.nextCalled => res.status \in {401, 403}
     /\ (res.nextCalled
         /\ ~\E pattern \in call.arg.config.publicPaths :
               matchPath(call.arg.path, pattern))
        => (res.reqUser # <<>> /\ res.reqSession # <<>>)

\* C25: the server invokes the configured lifecycle callbacks.  Each
\* successful signIn or signUp invokes onSignIn once with the sanitized
\* user, each signOut invokes onSignOut once, and a failed operation invokes
\* neither.
C25_LifecycleCallbacks ==
  [][/\ \* a session was created: signUp or signIn has succeeded
        nextSid' # nextSid
        => /\ lifecycleCalls'.onSignIn =
                Append(lifecycleCalls.onSignIn, res'.user[1])
           /\ lifecycleCalls'.onSignOut = lifecycleCalls.onSignOut
     /\ (call' # call /\ call'.op = "signOut" /\ res'.success)
        => /\ lifecycleCalls'.onSignOut = lifecycleCalls.onSignOut + 1
           /\ lifecycleCalls'.onSignIn = lifecycleCalls.onSignIn
     /\ (call' # call /\ ~res'.success)
        => lifecycleCalls' = lifecycleCalls]_vars

\* C26: email uniqueness under concurrency.  Whatever the interleaving of
\* signUp calls with the same email, at most one of them returns success,
\* the store never holds two users with that email, and a call that loses
\* fails with USER_EXISTS.
C26_EmailUniqueness ==
  /\ \A u1 \in users, u2 \in users : u1.email = u2.email => u1 = u2
  /\ \A i \in DOMAIN signUps, j \in DOMAIN signUps :
       ( /\ i # j
         /\ signUps[i].data.email = signUps[j].data.email
         /\ signUps[i].pc = "done" /\ signUps[j].pc = "done" )
       => /\ ~(signUps[i].response.success /\ signUps[j].response.success)
          /\ ~signUps[i].response.success
             => signUps[i].response.error =
                  <<AuthErr("USER_EXISTS", "User with this email already exists", 400)>>

\* C27: a valid session is accepted for its whole lifetime.  For the token
\* a successful signUp or signIn returned, while its user still exists,
\* getSession(token) succeeds at every time now < session.expiresAt.
C27_AcceptedForLifetime ==
  ( /\ call.op \in {"signUp", "signIn"}
    /\ res.success
    /\ findUserById(res.token[1].userId) # <<>>
    /\ now < res.session[1].expiresAt )
  => Response(getSessionAttempt(res.token[1], "none", NoThrow)).success

\* some socket opens in this step
opens ==
  \E k \in DOMAIN sockets :
    sockets[k].readyState = "CONNECTING" /\ sockets'[k].readyState = "OPEN"

\* some socket that disconnect() has not closed is closed in this step
closesUnexpectedly ==
  \E k \in DOMAIN sockets :
    /\ sockets[k].readyState \in {"CONNECTING", "OPEN"}
    /\ sockets'[k].readyState = "CLOSED"

\* C28: whenever a socket opens the attempt counter becomes zero, so the
\* unexpected close that follows an open finds the full budget of 5
\* attempts and is retried after the base delay of 1000 ms, however many
\* failures preceded the open.
C28_OpenResetsBackoff ==
  [][/\ opens => reconnectAttempts' = 0
     /\ (justOpened /\ closesUnexpectedly)
        => /\ maxReconnectAttempts - reconnectAttempts = 5
           /\ scheduled' = Append(scheduled, reconnectDelay)
           /\ \E i \in DOMAIN timers' : timers'[i].delay = reconnectDelay]_vars

\* two failed attempts, then a socket opened and closed: the third retry
\* is scheduled after the base delay again
C28_Witness ==
  /\ scheduled = <<1000, 2000, 1000>>
  /\ connectCalls = 1
  /\ ~quiet
  /\ everOpened
  /\ ~justOpened

\* C29: disconnect() is total and idempotent.  In every channel state it
\* can be called and returns, it leaves the channel with no socket and an
\* attempt counter of zero, and a second call right after it changes
\* nothing.
C29_DisconnectIdempotent ==
  LET once == disconnectBody(ws, sockets)
      twice == disconnectBody(once.ws, once.sockets)
  IN /\ ENABLED disconnect
     /\ once.ws = 0
     /\ once.reconnectAttempts = 0
     /\ twice = once

\* disconnect() was called on a channel that had given up after the cap:
\* five retries were scheduled, every socket is closed, no timer is pending
C29_Witness ==
  /\ quiet
  /\ ws = 0
  /\ reconnectAttempts = 0
  /\ scheduled = <<1000, 2000, 4000, 8000, 16000>>
  /\ timers = <<>>
  /\ Len(sockets) = 6
  /\ \A k \in DOMAIN sockets : sockets[k].readyState = "CLOSED"

\* a step gives the provider a Session it did not hold: the session state
\* changes, or a sign-in or sign-up succeeds (its Session is a new object
\* even where it equals the one held)
sessionReplaced ==
  \/ authSession' # authSession
  \/ /\ renders' # renders
     /\ lastClient'.op \in {"signIn", "signUp"}
     /\ lastClient'.ok

\* C30: SessionMonitor timer discipline.  While the provider is mounted an
\* expiry-check timer is armed iff a Session is present, never more than
\* one; a step that changes the Session leaves a timer armed by the render
\* that follows it, due one interval later; no timer is armed once the
\* session is null or the provider has unmounted.
C30_TimerDiscipline ==
  /\ [](/\ Len(interval) <= 1
        /\ ~unmounted => (interval # <<>> <=> authSession # <<>>)
        /\ (unmounted \/ authSession = <<>>) => interval = <<>>)
  /\ [][(sessionReplaced /\ authSession' # <<>>)
        => /\ interval' = <<[due |-> clientNow' + CheckInterval,
                             sync |-> renders']>>
           /\ interval' # interval]_vars

\* a pushed session replaced the session of a sign-in while its timer was
\* armed: the timer now armed is the one of the render after the push
C30_Witness ==
  /\ lastClient.op = "sessionPush"
  /\ authSession = <<PushedSession>>
  /\ interval = <<[due |-> clientNow + CheckInterval, sync |-> renders]>>
  /\ clientNow > 0
  /\ signedOut = FALSE
  /\ ~unmounted

\* C31: lookups do not mutate.  In every store state getSession, for any
\* token and whether it succeeds or fails, leaves the user records and the
\* session records as they are; and a signIn that fails with NO_DATABASE,
\* INVALID_CREDENTIALS or NO_PASSWORD creates no session record.
C31_LookupsDoNotMutate ==
  /\ \A t \in issued \cup {Forge(x) : x \in issued} \cup AnyTokens :
       \A fault \in {"none", "findUserById"}, thrown \in Thrown :
         /\ getSessionAttempt(t, fault, thrown).users = users
         /\ getSessionAttempt(t, fault, thrown).sessionsDb = sessionsDb
  /\ \A email \in Emails, password \in Passwords :
       LET attempt == signInAttempt([email |-> email, password |-> password],
                                    "none", NoThrow)
       IN ( /\ attempt.raised # <<>>
            /\ attempt.raised[1].code \in
                 {"NO_DATABASE", "INVALID_CREDENTIALS", "NO_PASSWORD"} )
          => /\ attempt.sessionsDb = sessionsDb
             /\ attempt.users = users

\* getSession has refused a forged token of a session whose record is
\* stored, and the record is still there
C31_Witness ==
  /\ call.op = "getSession"
  /\ call.arg.sig # jwtSecret
  /\ ~res.success
  /\ call.arg.sessionId \in sessionsDb
  /\ users # {}

\* C37: signUp is all-or-nothing.  In every store state, a signUp that
\* returns success false, at whichever collaborator call it fails, leaves
\* the user records and the session records as they were before the call.
C37_SignUpAllOrNothing ==
  \A data \in SignUpInputs,
     fault \in Faults({"findUserByEmail", "createUser", "createSession"}) :
    \A thrown \in ThrownBy(fault) :
      LET attempt == signUpAttempt(data, fault, thrown)
      IN (Response(attempt).outcome = "resolved" /\ ~Response(attempt).success)
         => /\ attempt.users = users
            /\ attempt.sessionsDb = sessionsDb

\* the sockets that are connecting or open
liveSockets ==
  {k \in DOMAIN sockets : sockets[k].readyState \in {"CONNECTING", "OPEN"}}

\* C38: a WebSocketSync never has more than one live socket nor more than
\* one pending reconnect timer, for any sequence of connect, disconnect,
\* open, close and timer events.
C38_OneSocketOneTimer ==
  /\ Cardinality(liveSockets) <= 1
  /\ Len(timers) <= 1

\* C39: after the channel has given up, an explicit connect(token) starts
\* a fresh retry cycle: when the socket of that connect closes without
\* having opened, a retry is scheduled after the base delay.
C39_FreshCycleAfterGiveUp ==
  [][( /\ reconnected # 0
       /\ sockets[reconnected].readyState = "CONNECTING"
       /\ sockets'[reconnected].readyState = "CLOSED" )
     => /\ scheduled' = Append(scheduled, reconnectDelay)
        /\ timers' # <<>>]_vars

\* a Session with its user key left out
withoutUser(session) ==
  [k \in (DOMAIN session) \ {"user"} |-> session[k]]

\* C32: last applied update wins.  Whatever the interleaving of sign-in and
\* sign-up completions, session_update pushes, updateUser calls and
\* sign-outs, an updateUser call writes over the session the latest of them
\* left: it leaves a signed-out client signed out, and of a session that is
\* present it replaces the user alone; what an earlier update wrote never
\* comes back.
C32_LastAppliedWins ==
  [][(lastClient'.op = "updateUser")
     => /\ authSession = <<>> => authSession' = <<>>
        /\ authSession # <<>>
           => /\ authSession' # <<>>
              /\ withoutUser(authSession'[1]) = withoutUser(authSession[1])]_vars

\* C33: client state consistency.  In every state of the AuthProvider user
\* is null iff session is null, and where both are present session.user is
\* user; across session restore, signIn, signUp, signOut, updateUser and
\* every session_update message, whatever it carries.
C33_UserIffSession ==
  /\ authUser = <<>> <=> authSession = <<>>
  /\ authSession # <<>> => sessionUser(authSession[1]) = authUser

\* the token SessionStorage keeps for its configuration
storedToken ==
  IF storageType = "indexedDB" THEN idbItem
  ELSE IF storageType = "sessionStorage" THEN sessionItem
  ELSE localItem

sessionExpired ==
  authSession # <<>> /\ clientNow >= authSession[1].expiresAt

\* C34: expiry is eventually enforced.  While time keeps passing and due
\* timers fire, a session whose expiresAt has passed is eventually signed
\* out, also when updateUser keeps replacing the Session more often than
\* the check interval.
C34_ExpiryEventuallyEnforced ==
  sessionExpired ~> (authSession = <<>> /\ authUser = <<>>)

\* C35: onSessionExpired fires at most once per expired session, even when
\* the sign-out request the check started takes longer than the check
\* interval.
C35_ExpiredFiresOnce ==
  expiredFired <= 1

=============================================================================
